---- MODULE Spec2Model ----
(***************************************************************************)
(* The time-budgeted research orchestrator of open-deep-research:          *)
(* deepResearch (src/lib/deep-research/deep-research.ts) and the request   *)
(* handler that drives it (src/app/api/research/route.ts).                 *)
(*                                                                         *)
(* The program is single-threaded and cooperative.  An action is the      *)
(* completion of one external call (LLM, search) followed by the code that *)
(* runs up to the next call or the next loop head; the code from a loop    *)
(* head to the next call is an action of its own (LoopHead,                *)
(* SubQuestionHead, IterationDone, ...), enabled only while no call of     *)
(* the main flow is in flight.  Date.now() is the variable now; it         *)
(* advances only while a call is in flight.  Progress callbacks are not    *)
(* modelled as calls: the handler's callback never throws (route.ts        *)
(* safeWrite).                                                             *)
(*                                                                         *)
(* Time is counted in ticks of 10 000 ms.                                  *)
(***************************************************************************)
EXTENDS Integers, Sequences, FiniteSets, TLC

\* ---- program constants, in ticks or in the program's own units ----------
TwentySeconds == 2
ThirtySeconds == 3
SixtySeconds == 6
ThreeMinutes == 18
FiveMinutes == 30
TicksPerMinute == 6
InitialAverageIteration == 6
QuickBreadth == 2
QuickDepth == 1
FollowupBreadth == 2
FollowupDepth == 1
MaxFollowups == 2
MeaningfulChars == 100
AnalysisMinChars == 50
MidDepthCoverage == 65
ComponentCoverage == 75
GlobalTimeout == 180

\* ---- bounds of the model ------------------------------------------------
\* A run departs from the nominal run at most MaxSurprises times.  The
\* nominal answer of a call is immediate and is the first of its answers
\* below; a call that takes time, any other answer and a caught failure are
\* one surprise each.  An uncaught failure ends the run and is free.
MaxSurprises == 3

\* ---- the environment's choices -----------------------------------------
\* how long an external call may take, in ticks
Durations == {0, 3}
\* how many queries the sub-query LLM may put in its answer
QueryCounts == {1, 3}
\* lengths (in characters) of the learnings the summarizer LLM may return
LearningLengths == {80}
\* coverage percentages the saturation LLM may report
Coverages == {0, 70, 75, 150}

NoTime == -1

\* ---- generic helpers ----------------------------------------------------
Range(s) == {s[i] : i \in DOMAIN s}

Min(a, b) == IF a <= b THEN a ELSE b

\* a faulty variant: the second argument whatever the first
Max_second(a, b) == b

Max(a, b) == IF a >= b THEN a ELSE b

RECURSIVE SeqSum(_)
SeqSum(s) ==
    IF s = <<>> THEN 0 ELSE Head(s) + SeqSum(Tail(s))

RECURSIVE SeqMax(_)
SeqMax(s) ==
    IF s = <<>> THEN 0 ELSE Max(Head(s), SeqMax(Tail(s)))

\* ---- plans --------------------------------------------------------------
\* A component is its name and the number of its sub-questions; a plan is
\* its components and its sequencing.  The sub-questions differ from each
\* other unless the component is repeated: then the last one has the text
\* of the one before it.
Component(nm, k) == [name |-> nm, nsub |-> k, repeated |-> FALSE]

RepeatedComponent(nm, k) == [name |-> nm, nsub |-> k, repeated |-> TRUE]

\* a sub-question is named by the number of its text
SubQuestions(comp) ==
    [i \in 1 .. comp.nsub |->
        IF comp.repeated /\ i = comp.nsub /\ i > 1 THEN i - 1 ELSE i]

\* a faulty variant: the first sub-question is kept for the full pass
AfterFirst_all(subQuestions) == subQuestions

\* comp.subQuestions.slice(1)
AfterFirst(subQuestions) ==
    IF subQuestions = <<>> THEN <<>> ELSE Tail(subQuestions)

\* Array.prototype.indexOf, counted from 1, of an element of the array
IndexOf(s, x) ==
    CHOOSE i \in DOMAIN s : s[i] = x /\ \A k \in 1 .. i - 1 : s[k] # x

FallbackPlan ==
    [components |-> <<Component("Basic Research", 1)>>,
     sequencing |-> <<"Basic Research">>]

NominalPlan ==
    [components |-> <<Component("A", 2), Component("B", 1)>>,
     sequencing |-> <<"A", "B">>]

\* a plan whose sequencing names something that is no component
StrayPlan ==
    [components |-> <<Component("A", 1)>>,
     sequencing |-> <<"A", "X">>]

\* a plan whose every component has a sub-question left for the full pass
DeepPlan ==
    [components |-> <<Component("A", 2), Component("B", 2)>>,
     sequencing |-> <<"A", "B">>]

\* a plan of three components, the first with a sub-question left for the
\* full pass
TriplePlan ==
    [components |->
        <<Component("A", 2), Component("B", 1), Component("C", 1)>>,
     sequencing |-> <<"A", "B", "C">>]

\* a plan whose component has two sub-questions left for the full pass
LongPlan ==
    [components |-> <<Component("A", 3)>>,
     sequencing |-> <<"A">>]

\* the same, the two sub-questions having the same text
RepeatPlan ==
    [components |-> <<RepeatedComponent("A", 3)>>,
     sequencing |-> <<"A">>]

\* plans the planning LLM may answer with
LLMPlans ==
    { NominalPlan, StrayPlan, DeepPlan, TriplePlan, LongPlan, RepeatPlan }

\* importance answers of the LLM: a score for each name
LLMScores(p) ==
    { [nm \in {p.components[i].name : i \in DOMAIN p.components} |->
          IF nm = p.components[k].name THEN 100 ELSE 0]
      : k \in DOMAIN p.components }
    \cup { [nm \in {p.components[i].name : i \in DOMAIN p.components} |->
               100 \div Len(p.components)] }

FindComponent(p, nm) ==
    LET hits == {i \in DOMAIN p.components : p.components[i].name = nm}
    IN  IF hits = {} THEN 0
        ELSE CHOOSE i \in hits : \A j \in hits : i <= j

\* ---- search results -----------------------------------------------------
\* A page is its url (a sequence of zero or one url) and md, the length of
\* its trimmed markdown (0: none).  Urls and learnings are tuples of
\* integers naming the call that produced them.
Page(tag, k, len) == [url |-> <<tag \o <<k>>>>, md |-> len]

NominalResponse(tag) == <<Page(tag, 1, 200)>>

SearchResponses(tag) ==
    { NominalResponse(tag),
      <<[url |-> <<>>, md |-> 200], Page(tag, 2, 0)>>,
      <<Page(tag, 1, 50)>>,
      <<>> }

PriorUrl == <<0 - 1, 0, 0, 0, 0, 0>>

PriorLearning == <<0 - 1, 0, 0, 0, 80>>

RECURSIVE FoundUrls(_)
FoundUrls(data) ==
    IF data = <<>> THEN <<>> ELSE Head(data).url \o FoundUrls(Tail(data))

HasMeaningful(data) ==
    \E i \in DOMAIN data : data[i].md > MeaningfulChars

TextContents(data) == SelectSeq(data, LAMBDA p : p.md > 0)

LearningLength(l) == l[Len(l)]

\* analyzeAndPlan's local short-circuit
NoUsefulContent(textContents) ==
    \/ textContents = <<>>
    \/ \A i \in DOMAIN textContents :
          LearningLength(textContents[i]) < AnalysisMinChars

\* evaluateComponentSaturation's minimal-iteration gate
BelowMinimalIterations(ci, total) == ci < (total + 9) \div 10

VARIABLES
    pc,                 \* the call deepResearch is waiting for
    now,                \* Date.now()
    input,              \* the caller's options
    plan,               \* plan, then updatedPlan
    importanceScores,
    finalDepthMults,    \* per name, in thousandths
    researchStats,
    learnings,          \* the top-level lists
    visitedUrls,
    wk,                 \* the quick-pass tasks
    qf,                 \* the activations of deepResearchQuery, per owner
    quickPassResults,
    timeState,
    idx,                \* position of the full pass in the sequencing
    completedComponents,
    skippedComponents,
    componentResults,
    rc,                 \* the locals of researchComponent
    followups,          \* quality follow-up queries still to run
    timeStats,          \* the returned timeStats
    startTime,
    \* history variables
    surprises,          \* departures from the nominal run so far
    fault,              \* the call that threw, if any
    acceptedUrls,       \* urls of search results accepted as meaningful
    seededLearnings,    \* learnings returned by a summarizer call that
                        \* was given a non-empty markdown body
    hist,               \* per component: what its research produced,
                        \* whether its last quality evaluation asked for
                        \* more, and the follow-up calls made since
    route,              \* the request handler: signal, timer and sink
    report              \* writeFinalReport and the test mode's result

vars ==
    <<pc, now, input, plan, importanceScores, finalDepthMults,
      researchStats, learnings, visitedUrls, wk, qf, quickPassResults,
      timeState, idx, completedComponents, skippedComponents,
      componentResults, rc, followups, timeStats, startTime, fault,
      acceptedUrls, seededLearnings, hist, surprises, route, report>>

\* ---- statistics ---------------------------------------------------------
\* averageIterationTimeMs is kept as the fraction num/den
AverageAfter(st, total, count) == [num |-> total, den |-> count]

\* a faulty variant: the average is taken before the totals are updated
RecordIteration_stale(st, iterationTime) ==
    [completedIterations |-> st.completedIterations + 1,
     totalIterationsTime |-> st.totalIterationsTime + iterationTime,
     iterationTimes |-> Append(st.iterationTimes, iterationTime),
     averageIterationTimeMs |->
        AverageAfter(st, st.totalIterationsTime, st.completedIterations + 1)]

RecordIteration(st, iterationTime) ==
    LET count == st.completedIterations + 1
        total == st.totalIterationsTime + iterationTime
    IN  [completedIterations |-> count,
         totalIterationsTime |-> total,
         iterationTimes |-> Append(st.iterationTimes, iterationTime),
         averageIterationTimeMs |-> AverageAfter(st, total, count)]

\* ---- queries ------------------------------------------------------------
\* A query is the sequence of its words.
Query == <<"the", "query", "as", "given">>

FirstWords(q, n) == SubSeq(q, 1, IF Len(q) < n THEN Len(q) ELSE n)

\* analyzeAndPlan's next topic when there is no content to analyse
Basics(q) == FirstWords(q, 3) \o <<"basics">>

\* ---- deepResearchQuery --------------------------------------------------
\* An activation: at names the call in flight ("gen" generateSubQueries,
\* "search", "retry", "summ" summarizer, "analyze", "midsat" saturation,
\* "ret" returned, "idle" none).
IdleFrame ==
    [at |-> "idle", owner |-> 0, serial |-> 0, d |-> 0, depth |-> 0,
     breadth |-> 0, sqLeft |-> 0, cl |-> <<>>, cu |-> <<>>, rt |-> NoTime,
     comp |-> FALSE, it0 |-> 0, data |-> <<>>, found |-> <<>>,
     saturEval |-> [isSaturated |-> FALSE, coveragePercentage |-> 0],
     query |-> <<>>, sq |-> <<>>,
     \* history: sub-queries gone through, and how many of them took
     \* analyzeAndPlan's short-circuit
     handled |-> 0, shortCircuits |-> 0]

\* the check at the head of the depth loop
TimeLow(rt) == rt # NoTime /\ rt # 0 /\ rt < TwentySeconds

\* the head of the depth loop
StartDepth(f, st, t) ==
    IF f.d < f.depth /\ ~TimeLow(f.rt)
    THEN [f |-> [f EXCEPT !.at = "gen", !.it0 = t], st |-> st]
    ELSE [f |-> [f EXCEPT !.at = "ret"], st |-> st]

NewQuery(o, ser, b, dp, ls, us, rem, hasComp, st, t) ==
    StartDepth([IdleFrame EXCEPT !.owner = o, !.serial = ser, !.breadth = b,
                   !.depth = dp, !.cl = ls, !.cu = us, !.rt = rem,
                   !.comp = hasComp, !.query = Query], st, t)

\* the end of a depth iteration: statistics, then the mid-depth saturation
EndIteration(f, st, t) ==
    LET st2 == RecordIteration(st, t - f.it0)
    IN  IF f.comp /\ f.d < f.depth - 1
           /\ ~BelowMinimalIterations(f.d + 1, f.depth)
        THEN [f |-> [f EXCEPT !.at = "midsat"], st |-> st2]
        ELSE StartDepth([f EXCEPT !.d = @ + 1], st2, t)

\* the words of the sub-query the LLM wrote for this place of the loop
SubQuery(f) ==
    <<"sub", "query", ToString(f.d), ToString(f.sqLeft), "more">>

\* the head of the sub-query loop
NextSubQuery(f, st, t) ==
    IF f.sqLeft > 0
    THEN [f |-> [f EXCEPT !.at = "search", !.sq = SubQuery(f)], st |-> st]
    ELSE EndIteration(f, st, t)

AfterSubQuery(f, st, t) ==
    NextSubQuery([f EXCEPT !.sqLeft = @ - 1, !.data = <<>>, !.found = <<>>,
                           !.handled = @ + 1],
                 st, t)

\* analyzeAndPlan answered for sq without asking the LLM
ShortCircuit(f, st, t) ==
    AfterSubQuery([f EXCEPT !.query = Basics(f.sq), !.shortCircuits = @ + 1],
                  st, t)

\* a search result was accepted: record its urls, then summarize
Accepted(f, st, t, data, urls) ==
    LET f2 == [f EXCEPT !.cu = @ \o urls, !.data = data, !.found = urls]
    IN  IF TextContents(data) = <<>>
        THEN ShortCircuit(f2, st, t)
        ELSE [f |-> [f2 EXCEPT !.at = "summ"], st |-> st]

\* a faulty variant: the urls of a result without content are recorded
AfterSearch_keepsFirst(f, st, t, data) ==
    IF HasMeaningful(data)
    THEN Accepted(f, st, t, data, FoundUrls(data))
    ELSE [f |-> [f EXCEPT !.at = "retry", !.data = data,
                          !.found = FoundUrls(data),
                          !.cu = @ \o FoundUrls(data)], st |-> st]

AfterSearch(f, st, t, data) ==
    IF HasMeaningful(data)
    THEN Accepted(f, st, t, data, FoundUrls(data))
    ELSE [f |-> [f EXCEPT !.at = "retry", !.data = data,
                          !.found = FoundUrls(data)], st |-> st]

\* a faulty variant: the retry's urls are kept whatever it returned
AfterRetry_always(f, st, t, retry) ==
    Accepted(f, st, t, retry, FoundUrls(retry))

\* a faulty variant: a retry that finds nothing is made again
AfterRetry_again(f, st, t, retry) ==
    IF HasMeaningful(retry)
    THEN Accepted(f, st, t, retry, FoundUrls(retry))
    ELSE [f |-> [f EXCEPT !.at = "retry"], st |-> st]

AfterRetry(f, st, t, retry) ==
    IF HasMeaningful(retry)
    THEN Accepted(f, st, t, retry, FoundUrls(retry))
    ELSE AfterSubQuery(f, st, t)

AfterSummarizer(f, st, t, newLearnings) ==
    LET f2 == [f EXCEPT !.cl = @ \o newLearnings]
    IN  IF NoUsefulContent(newLearnings)
        THEN ShortCircuit(f2, st, t)
        ELSE [f |-> [f2 EXCEPT !.at = "analyze"], st |-> st]

\* analyzeAndPlan's answer: the LLM's analysis, or "error"
ShouldContinue(a) == IF a.valuable THEN a.shouldContinue ELSE TRUE

NextSearchTopic(a, sq) ==
    IF a.valuable \/ a.nextSearchTopic # <<>> THEN a.nextSearchTopic
    ELSE FirstWords(sq, 3)

AfterAnalysis(f, st, t, continue, nextSearchTopic) ==
    IF continue
    THEN AfterSubQuery([f EXCEPT !.query = IF nextSearchTopic # <<>>
                                           THEN nextSearchTopic ELSE @],
                       st, t)
    ELSE [f |-> [f EXCEPT !.at = "ret"], st |-> st]

\* a faulty variant: the depth loop goes on whatever the evaluation says
AfterMidSaturation_goesOn(f, st, t, sat) ==
    StartDepth([f EXCEPT !.d = @ + 1, !.saturEval = sat], st, t)

AfterMidSaturation(f, st, t, sat) ==
    IF sat.isSaturated \/ sat.coveragePercentage >= MidDepthCoverage
    THEN [f |-> [f EXCEPT !.at = "ret", !.saturEval = sat], st |-> st]
    ELSE StartDepth([f EXCEPT !.d = @ + 1, !.saturEval = sat], st, t)

SaturationAnswers ==
    [isSaturated : BOOLEAN, coveragePercentage : Coverages]

SaturationFallback == [isSaturated |-> FALSE, coveragePercentage |-> 0]

NominalSaturation == [isSaturated |-> FALSE, coveragePercentage |-> 0]

\* ---- who may step -------------------------------------------------------
Owners == 0 .. 3

Active(o) ==
    IF o = 0 THEN pc \in {"query", "followup"}
    ELSE pc = "quick" /\ o \in DOMAIN wk /\ wk[o].at = "run"

Phase(o) == IF o = 0 THEN pc ELSE "quick"

Tag(f, r) == <<f.owner, f.serial, f.d, f.sqLeft, r>>

MainUnchanged ==
    UNCHANGED <<pc, input, plan, importanceScores, finalDepthMults,
                learnings, visitedUrls, quickPassResults, timeState, idx,
                completedComponents, skippedComponents, componentResults,
                rc, followups, timeStats, startTime, route, report, fault, hist>>

\* r is the activation and the statistics after the step, t the time
Commit(o, r, t) ==
    /\ now' = t
    /\ researchStats' = r.st
    /\ qf' = [qf EXCEPT ![o] = r.f]
    /\ wk' = IF o # 0 /\ r.f.at = "ret"
             THEN [wk EXCEPT ![o] =
                     [@ EXCEPT !.at = "wsum", !.timeSpent = t - wk[o].start,
                               !.learnings = r.f.cl,
                               !.visitedUrls = r.f.cu]]
             ELSE wk

\* an uncaught exception in an activation: it leaves researchComponent and
\* deepResearch, or rejects the quick pass's Promise.all
Throws(o, kind, t) ==
    /\ now' = t
    /\ pc' = "threw"
    /\ fault' = [kind |-> kind, phase |-> Phase(o), owner |-> o]
    /\ UNCHANGED <<input, plan, importanceScores, finalDepthMults,
                   researchStats, learnings, visitedUrls, wk, qf,
                   quickPassResults, timeState, idx, completedComponents,
                   skippedComponents, componentResults, rc, followups,
                   timeStats, startTime, route, report, acceptedUrls, seededLearnings,
                   hist>>

Times == {now + dur : dur \in Durations}

\* the call in flight completes at time t with a nominal answer or not
Charge(t, nominal) ==
    /\ surprises' = surprises + (IF t > now THEN 1 ELSE 0)
                              + (IF nominal THEN 0 ELSE 1)
    /\ surprises' <= MaxSurprises

GenerateSubQueriesReturns(o) ==
    /\ Active(o) /\ qf[o].at = "gen"
    /\ \E t \in Times, k \in QueryCounts :
          /\ Charge(t, k = 1)
          /\ Commit(o, NextSubQuery([qf[o] EXCEPT
                                       !.sqLeft = Min(k, qf[o].breadth)],
                                    researchStats, t), t)
    /\ MainUnchanged
    /\ UNCHANGED <<acceptedUrls, seededLearnings>>

GenerateSubQueriesThrows(o) ==
    /\ Active(o) /\ qf[o].at = "gen"
    /\ \E t \in Times : Charge(t, TRUE) /\ Throws(o, "subqueries", t)

\* what firecrawl.search may answer, and the answer that is no surprise
ServiceResponses(tag) ==
    IF input.firecrawl = "empty" THEN {<<Page(tag, 1, 0)>>}
    ELSE SearchResponses(tag)

ExpectedResponse(tag) ==
    IF input.firecrawl = "empty" THEN <<Page(tag, 1, 0)>>
    ELSE NominalResponse(tag)

SearchReturns(o) ==
    /\ Active(o) /\ qf[o].at = "search"
    /\ \E t \in Times, data \in ServiceResponses(Tag(qf[o], 0)) :
          /\ Charge(t, data = ExpectedResponse(Tag(qf[o], 0)))
          /\ Commit(o, AfterSearch(qf[o], researchStats, t, data), t)
          /\ acceptedUrls' =
                IF HasMeaningful(data)
                THEN acceptedUrls \cup Range(FoundUrls(data))
                ELSE acceptedUrls
    /\ MainUnchanged
    /\ UNCHANGED seededLearnings

RetryReturns(o) ==
    /\ Active(o) /\ qf[o].at = "retry"
    /\ \E t \in Times, data \in ServiceResponses(Tag(qf[o], 1)) :
          /\ Charge(t, data = ExpectedResponse(Tag(qf[o], 1)))
          /\ Commit(o, AfterRetry(qf[o], researchStats, t, data), t)
          /\ acceptedUrls' =
                IF HasMeaningful(data)
                THEN acceptedUrls \cup Range(FoundUrls(data))
                ELSE acceptedUrls
    /\ MainUnchanged
    /\ UNCHANGED seededLearnings

SearchThrows(o) ==
    /\ Active(o) /\ qf[o].at \in {"search", "retry"}
    /\ \E t \in Times : Charge(t, TRUE) /\ Throws(o, "search", t)

SummarizerAnswers(f) ==
    {<<>>} \cup {<<Tag(f, len)>> : len \in LearningLengths}

SummarizerReturns(o) ==
    /\ Active(o) /\ qf[o].at = "summ"
    /\ \E t \in Times, newLearnings \in SummarizerAnswers(qf[o]) :
          /\ Charge(t, newLearnings # <<>>)
          /\ Commit(o, AfterSummarizer(qf[o], researchStats, t,
                                       newLearnings), t)
          /\ seededLearnings' =
                IF TextContents(qf[o].data) # <<>>
                THEN seededLearnings \cup Range(newLearnings)
                ELSE seededLearnings
    /\ MainUnchanged
    /\ UNCHANGED acceptedUrls

SummarizerThrows(o) ==
    /\ Active(o) /\ qf[o].at = "summ"
    /\ \E t \in Times : Charge(t, TRUE) /\ Throws(o, "summarizer", t)

NominalAnalysis ==
    [valuable |-> TRUE, shouldContinue |-> TRUE,
     nextSearchTopic |-> <<"next", "topic">>]

AnalysisAnswers ==
    { NominalAnalysis,
      [valuable |-> TRUE, shouldContinue |-> FALSE, nextSearchTopic |-> <<>>],
      [valuable |-> FALSE, shouldContinue |-> FALSE,
       nextSearchTopic |-> <<>>] }

AnalysisReturns(o) ==
    /\ Active(o) /\ qf[o].at = "analyze"
    /\ \E t \in Times, a \in AnalysisAnswers :
          /\ Charge(t, a = NominalAnalysis)
          /\ Commit(o, AfterAnalysis(qf[o], researchStats, t,
                                     ShouldContinue(a),
                                     NextSearchTopic(a, qf[o].sq)), t)
    /\ MainUnchanged
    /\ UNCHANGED <<acceptedUrls, seededLearnings>>

\* the analysis call failed: caught, "continue"
AnalysisFails(o) ==
    /\ Active(o) /\ qf[o].at = "analyze"
    /\ \E t \in Times :
          /\ Charge(t, FALSE)
          /\ Commit(o, AfterAnalysis(qf[o], researchStats, t, TRUE,
                                     FirstWords(qf[o].sq, 3)), t)
    /\ MainUnchanged
    /\ UNCHANGED <<acceptedUrls, seededLearnings>>

MidSaturationReturns(o) ==
    /\ Active(o) /\ qf[o].at = "midsat"
    /\ \E t \in Times, sat \in SaturationAnswers :
          /\ Charge(t, sat = NominalSaturation)
          /\ Commit(o, AfterMidSaturation(qf[o], researchStats, t, sat), t)
    /\ MainUnchanged
    /\ UNCHANGED <<acceptedUrls, seededLearnings>>

MidSaturationFails(o) ==
    /\ Active(o) /\ qf[o].at = "midsat"
    /\ \E t \in Times :
          /\ Charge(t, FALSE)
          /\ Commit(o, AfterMidSaturation(qf[o], researchStats, t,
                                          SaturationFallback), t)
    /\ MainUnchanged
    /\ UNCHANGED <<acceptedUrls, seededLearnings>>

\* ---- the time-state machine ---------------------------------------------
\* inProgress is a sequence of zero (null) or one name
NullState ==
    [startTime |-> NoTime, currentTime |-> NoTime, elapsedTime |-> 0,
     remainingTime |-> 0, completed |-> <<>>, inProgress |-> <<>>,
     remaining |-> <<>>, componentTimes |-> <<>>]

Budget(maxDuration) == maxDuration * TicksPerMinute

\* a faulty variant: the first remaining name, the completed one included
FirstOther_any(remaining, nm) ==
    IF remaining = <<>> THEN <<>> ELSE <<Head(remaining)>>

FirstOther(remaining, nm) ==
    LET others == SelectSeq(remaining, LAMBDA c : c # nm)
    IN  IF others = <<>> THEN <<>> ELSE <<Head(others)>>

\* a faulty variant: the completed name stays in remaining
CompleteComponent_keep(state, nm, timeSpent) ==
    [state EXCEPT
       !.completed = Append(@, nm),
       !.componentTimes = (nm :> timeSpent) @@ @,
       !.inProgress = FirstOther(state.remaining, nm)]

\* the branch of updateResearchState taken when completedComponent is set
CompleteComponent(state, nm, timeSpent) ==
    [state EXCEPT
       !.completed = Append(@, nm),
       !.componentTimes = (nm :> timeSpent) @@ @,
       !.inProgress = FirstOther(state.remaining, nm),
       !.remaining = SelectSeq(@, LAMBDA c : c # nm)]

\* a faulty variant: refreshing an existing state restarts its clock
UpdateResearchState_restart(state, sequencing, maxDuration, completedComponent, timeSpent, t) ==
    IF state = NullState
    THEN [startTime |-> t, currentTime |-> t, elapsedTime |-> 0,
          remainingTime |-> Budget(maxDuration), completed |-> <<>>,
          inProgress |-> IF sequencing = <<>> THEN <<>>
                         ELSE <<Head(sequencing)>>,
          remaining |-> sequencing, componentTimes |-> <<>>]
    ELSE LET updatedState ==
                 [state EXCEPT
                    !.startTime = t,
                    !.currentTime = t,
                    !.elapsedTime = t - state.startTime,
                    !.remainingTime =
                        Max(0, Budget(maxDuration) - (t - state.startTime))]
         IN  IF completedComponent # <<>>
             THEN CompleteComponent(updatedState, Head(completedComponent),
                                    timeSpent)
             ELSE updatedState

\* completedComponent is a sequence of zero (null) or one name
UpdateResearchState(state, sequencing, maxDuration, completedComponent, timeSpent, t) ==
    IF state = NullState
    THEN [startTime |-> t, currentTime |-> t, elapsedTime |-> 0,
          remainingTime |-> Budget(maxDuration), completed |-> <<>>,
          inProgress |-> IF sequencing = <<>> THEN <<>>
                         ELSE <<Head(sequencing)>>,
          remaining |-> sequencing, componentTimes |-> <<>>]
    ELSE LET updatedState ==
                 [state EXCEPT
                    !.currentTime = t,
                    !.elapsedTime = t - state.startTime,
                    !.remainingTime =
                        Max(0, Budget(maxDuration) - (t - state.startTime))]
         IN  IF completedComponent # <<>>
             THEN CompleteComponent(updatedState, Head(completedComponent),
                                    timeSpent)
             ELSE updatedState

\* ---- shouldContinueComponent -------------------------------------------
LastThree(s) ==
    IF Len(s) <= 3 THEN s ELSE SubSeq(s, Len(s) - 2, Len(s))

\* iterationTimeEstimate, as the fraction num/den
IterationTimeEstimate(st) ==
    LET recent == LastThree(st.iterationTimes)
    IN  IF recent # <<>>
        THEN [num |-> SeqSum(recent), den |-> Len(recent)]
        ELSE IF st.averageIterationTimeMs.num > 0
             THEN st.averageIterationTimeMs
             ELSE [num |-> SixtySeconds, den |-> 1]

\* a faulty variant: time for exactly the minimal research is not enough
ContinuesWithoutAsking_strict(state, st) ==
    LET count == Len(state.remaining)
        est == IterationTimeEstimate(st)
    IN  \/ state.remainingTime > FiveMinutes
        \/ count <= 1
        \/ state.remainingTime * est.den > count * est.num

\* TRUE when the function returns true without asking the LLM
ContinuesWithoutAsking(state, st) ==
    LET count == Len(state.remaining)
        est == IterationTimeEstimate(st)
    IN  \/ state.remainingTime > FiveMinutes
        \/ count <= 1
        \/ state.remainingTime * est.den > count * est.num
        \/ state.remainingTime * est.den >= count * est.num

\* ---- rebalanceResearchPlan and the depth multipliers --------------------
Score(scores, nm) == IF nm \in DOMAIN scores THEN scores[nm] ELSE 0

\* insert nm after every name whose score is not below its own
RECURSIVE InsertByScore(_, _, _)
InsertByScore(sorted, nm, scores) ==
    IF sorted = <<>> THEN <<nm>>
    ELSE IF Score(scores, Head(sorted)) >= Score(scores, nm)
         THEN <<Head(sorted)>> \o InsertByScore(Tail(sorted), nm, scores)
         ELSE <<nm>> \o sorted

\* Array.prototype.sort is stable
RECURSIVE SortByScore(_, _)
SortByScore(seq, scores) ==
    IF seq = <<>> THEN <<>>
    ELSE InsertByScore(SortByScore(SubSeq(seq, 1, Len(seq) - 1), scores),
                       seq[Len(seq)], scores)

\* a faulty variant: names of equal score come out in reverse input order
RebalanceResearchPlan_reversed(p, scores) ==
    [p EXCEPT !.sequencing =
        SortByScore([i \in DOMAIN p.sequencing |->
                        p.sequencing[Len(p.sequencing) + 1 - i]], scores)]

RebalanceResearchPlan(p, scores) ==
    [p EXCEPT !.sequencing = SortByScore(p.sequencing, scores)]

ComponentNames(p) == {p.components[i].name : i \in DOMAIN p.components}

\* 0.5 + (imp / averageImp) * 0.75 with averageImp = 100 / n, in thousandths
DynamicMult(imp, n) == 500 + (imp * n * 750) \div 100

\* componentDepthMultipliers[c.name] ?? dynamicMult
FinalDepthMults(p, scores, componentDepthMultipliers) ==
    [nm \in ComponentNames(p) |->
        IF nm \in DOMAIN componentDepthMultipliers
        THEN componentDepthMultipliers[nm]
        ELSE DynamicMult(IF nm \in DOMAIN scores THEN scores[nm]
                         ELSE 100 \div Len(p.components),
                         Len(p.components))]

\* Math.max(1, Math.round(depth * multiplier)), multiplier in thousandths
AdjustedDepth(depth, mult) == Max(1, (depth * mult + 500) \div 1000)

\* ---- deepResearch: planning and the quick pass ---------------------------
EmptyStats ==
    [completedIterations |-> 0, totalIterationsTime |-> 0,
     iterationTimes |-> <<>>,
     averageIterationTimeMs |-> [num |-> InitialAverageIteration, den |-> 1]]

NoFault == [kind |-> "none", phase |-> "none", owner |-> 0]

NoTimeStats ==
    [totalTime |-> 0, componentTimes |-> <<>>, completedComponents |-> <<>>,
     skippedComponents |-> <<>>,
     averageIterationTimeMs |-> [num |-> 0, den |-> 1]]

NoRc ==
    [name |-> "", subQuestions |-> <<>>, nq |-> 0, j |-> 0,
     componentStartTime |-> 0,
     componentLearnings |-> <<>>, componentUrls |-> <<>>,
     completedIterations |-> 0, adjustedDepth |-> 0, iterationStart |-> 0,
     saturRes |-> SaturationFallback]

\* a caller-supplied multiplier, in thousandths
CallerMults == "A" :> 1000

\* The caller's options: maxDuration is in minutes; firecrawl is the search
\* service behind firecrawlKey: the live one, or one whose every answer is
\* a page without markdown
Inputs ==
    {[maxDuration |-> 1, breadth |-> 2, depth |-> 1, prior |-> TRUE,
      componentDepthMultipliers |-> <<>>,
      testAnthropicMode |-> FALSE, firecrawl |-> "live"],
     [maxDuration |-> 1, breadth |-> 4, depth |-> 1, prior |-> FALSE,
      componentDepthMultipliers |-> <<>>,
      testAnthropicMode |-> FALSE, firecrawl |-> "live"],
     [maxDuration |-> 4, breadth |-> 2, depth |-> 1, prior |-> FALSE,
      componentDepthMultipliers |-> <<>>,
      testAnthropicMode |-> FALSE, firecrawl |-> "live"],
     [maxDuration |-> 4, breadth |-> 2, depth |-> 1, prior |-> FALSE,
      componentDepthMultipliers |-> CallerMults,
      testAnthropicMode |-> FALSE, firecrawl |-> "live"],
     [maxDuration |-> 4, breadth |-> 2, depth |-> 1, prior |-> FALSE,
      componentDepthMultipliers |-> <<>>,
      testAnthropicMode |-> TRUE, firecrawl |-> "live"],
     [maxDuration |-> 4, breadth |-> 2, depth |-> 1, prior |-> FALSE,
      componentDepthMultipliers |-> <<>>,
      testAnthropicMode |-> FALSE, firecrawl |-> "empty"]}

\* deepResearch called by a caller that is not the request handler
NoRoute ==
    [phase |-> "none", aborted |-> FALSE, timer |-> FALSE,
     sinkClosed |-> FALSE, connected |-> FALSE, deadline |-> 0,
     events |-> <<>>, lostWrites |-> FALSE]

\* ---- writeFinalReport ----------------------------------------------------
\* A report is a sequence of numbers: the text deltas of the synthesis
\* stream in the order received, or the primary model's reportMarkdown.
Deltas == {1, 2}

MaxDeltas == 3

ReportMarkdown == <<0>>

NoReport ==
    [at |-> "idle", key |-> FALSE, finalReport |-> <<>>, returned |-> <<>>,
     apiTestResult |-> <<>>,
     \* history: the deltas received, whether the synthesis call or its
     \* stream raised, the calls of writeFinalReport
     deltas |-> <<>>, synthesisFailed |-> FALSE, calls |-> 0]

\* writeFinalReport up to its first call: the synthesis call when there is
\* a key, fallbackReportGeneration's call otherwise
WriteFinalReport(key) ==
    [NoReport EXCEPT !.key = key, !.calls = 1,
                     !.at = IF key THEN "create" ELSE "fallback"]

\* entry is the first call awaited, r the handler's state; in test mode
\* deepResearch awaits writeFinalReport at once
InitAt(entry, r) ==
    /\ input \in Inputs
    /\ pc = IF input.testAnthropicMode THEN "test" ELSE entry
    /\ report \in IF input.testAnthropicMode
                  THEN {WriteFinalReport(key) : key \in BOOLEAN}
                  ELSE {NoReport}
    /\ route = r
    /\ now = 0
    /\ startTime = 0
    /\ plan = [components |-> <<>>, sequencing |-> <<>>]
    /\ importanceScores = <<>>
    /\ finalDepthMults = <<>>
    /\ researchStats = EmptyStats
    /\ learnings = IF input.prior THEN <<PriorLearning>> ELSE <<>>
    /\ visitedUrls = IF input.prior THEN <<PriorUrl>> ELSE <<>>
    /\ wk = <<>>
    /\ qf = [o \in Owners |-> IdleFrame]
    /\ quickPassResults = <<>>
    /\ timeState = NullState
    /\ idx = 0
    /\ completedComponents = <<>>
    /\ skippedComponents = <<>>
    /\ componentResults = <<>>
    /\ rc = NoRc
    /\ followups = 0
    /\ timeStats = NoTimeStats
    /\ fault = NoFault
    /\ acceptedUrls = {}
    /\ seededLearnings = {}
    /\ hist = <<>>
    /\ surprises = 0

Init == InitAt("plan", NoRoute)

\* createResearchPlan
PlanReturns ==
    /\ pc = "plan"
    /\ \E t \in Times, p \in LLMPlans :
          Charge(t, p = NominalPlan) /\ now' = t /\ plan' = p
    /\ pc' = "importance"
    /\ UNCHANGED <<input, importanceScores, finalDepthMults, researchStats,
                   learnings, visitedUrls, wk, qf, quickPassResults,
                   timeState, idx, completedComponents, skippedComponents,
                   componentResults, rc, followups, timeStats, startTime, route, report,
                   fault, acceptedUrls, seededLearnings, hist>>

PlanFails ==
    /\ pc = "plan"
    /\ \E t \in Times : Charge(t, FALSE) /\ now' = t
    /\ plan' = FallbackPlan
    /\ pc' = "importance"
    /\ UNCHANGED <<input, importanceScores, finalDepthMults, researchStats,
                   learnings, visitedUrls, wk, qf, quickPassResults,
                   timeState, idx, completedComponents, skippedComponents,
                   componentResults, rc, followups, timeStats, startTime, route, report,
                   fault, acceptedUrls, seededLearnings, hist>>

\* initialParallelResearch up to Promise.all: every task runs to its first
\* call
LaunchQuickPass(t) ==
    /\ wk' = [i \in DOMAIN plan.components |->
                [at |-> "run", start |-> t, timeSpent |-> 0,
                 learnings |-> <<>>, visitedUrls |-> <<>>, summary |-> ""]]
    /\ qf' = [o \in Owners |->
                IF o \in DOMAIN plan.components
                THEN NewQuery(o, 0, QuickBreadth, QuickDepth, <<>>, <<>>,
                              NoTime, FALSE, researchStats, t).f
                ELSE qf[o]]
    /\ pc' = "quick"

EqualScores(p) ==
    [nm \in ComponentNames(p) |-> 100 \div Len(p.components)]

\* evaluateComponentImportance, then the quick pass starts
ImportanceReturns ==
    /\ pc = "importance"
    /\ \E t \in Times, sc \in LLMScores(plan) :
          /\ Charge(t, sc = EqualScores(plan)) /\ now' = t
          /\ importanceScores' = sc
          /\ LaunchQuickPass(t)
    /\ UNCHANGED <<input, plan, finalDepthMults, researchStats, learnings,
                   visitedUrls, quickPassResults, timeState, idx,
                   completedComponents, skippedComponents, componentResults,
                   rc, followups, timeStats, startTime, route, report, fault, acceptedUrls,
                   seededLearnings, hist>>

ImportanceFails ==
    /\ pc = "importance"
    /\ \E t \in Times :
          /\ Charge(t, FALSE) /\ now' = t
          /\ importanceScores' = EqualScores(plan)
          /\ LaunchQuickPass(t)
    /\ UNCHANGED <<input, plan, finalDepthMults, researchStats, learnings,
                   visitedUrls, quickPassResults, timeState, idx,
                   completedComponents, skippedComponents, componentResults,
                   rc, followups, timeStats, startTime, route, report, fault, acceptedUrls,
                   seededLearnings, hist>>

\* the summary call of a quick-pass task: summary is "llm" or "fallback"
WorkerSummaryDone(i, summary) ==
    /\ pc = "quick" /\ i \in DOMAIN wk /\ wk[i].at = "wsum"
    /\ \E t \in Times : Charge(t, summary = "llm") /\ now' = t
    /\ wk' = [wk EXCEPT ![i] = [@ EXCEPT !.at = "done",
                                         !.summary = summary]]
    /\ UNCHANGED <<pc, input, plan, importanceScores, finalDepthMults,
                   researchStats, learnings, visitedUrls, qf,
                   quickPassResults, timeState, idx, completedComponents,
                   skippedComponents, componentResults, rc, followups,
                   timeStats, startTime, route, report, fault, acceptedUrls,
                   seededLearnings, hist>>

WorkerSummaryReturns(i) == WorkerSummaryDone(i, "llm")

WorkerSummaryFails(i) == WorkerSummaryDone(i, "fallback")

WorkerResult(i) ==
    [learnings |-> wk[i].learnings, visitedUrls |-> wk[i].visitedUrls,
     summary |-> wk[i].summary, timeSpent |-> wk[i].timeSpent]

\* results[item.name] = item.result, in the order of the components
QuickResults ==
    [nm \in ComponentNames(plan) |->
        LET hits == {i \in DOMAIN plan.components :
                        plan.components[i].name = nm}
        IN  WorkerResult(CHOOSE i \in hits : \A j \in hits : j <= i)]

\* the keys of the result map, in insertion order
RECURSIVE KeysInOrder(_, _)
KeysInOrder(comps, seen) ==
    IF comps = <<>> THEN <<>>
    ELSE IF Head(comps).name \in seen
         THEN KeysInOrder(Tail(comps), seen)
         ELSE <<Head(comps).name>>
              \o KeysInOrder(Tail(comps), seen \cup {Head(comps).name})

RECURSIVE Gather(_, _, _)
Gather(keys, results, field) ==
    IF keys = <<>> THEN <<>>
    ELSE results[Head(keys)][field] \o Gather(Tail(keys), results, field)

\* Promise.all resolved: merge, rebalance, multipliers, init of the state
QuickPassJoin ==
    /\ pc = "quick"
    /\ \A i \in DOMAIN wk : wk[i].at = "done"
    /\ quickPassResults' = QuickResults
    /\ learnings' = learnings
          \o Gather(KeysInOrder(plan.components, {}), QuickResults,
                    "learnings")
    /\ visitedUrls' = visitedUrls
          \o Gather(KeysInOrder(plan.components, {}), QuickResults,
                    "visitedUrls")
    /\ plan' = RebalanceResearchPlan(plan, importanceScores)
    /\ finalDepthMults' = FinalDepthMults(plan, importanceScores,
                                          input.componentDepthMultipliers)
    /\ timeState' = UpdateResearchState(NullState, plan'.sequencing,
                                        input.maxDuration, <<>>, 0, now)
    /\ hist' = [nm \in ComponentNames(plan) |->
                  [quick |-> QuickResults[nm].learnings,
                   deepNew |-> <<>>,
                   iterSum |-> QuickResults[nm].timeSpent,
                   otherSum |-> 0,
                   gaps |-> FALSE,
                   followupCalls |-> 0]]
    /\ idx' = 1
    /\ pc' = "loop"
    /\ UNCHANGED <<now, input, importanceScores, researchStats, wk, qf,
                   completedComponents, skippedComponents, componentResults,
                   rc, followups, timeStats, startTime, route, report, fault, acceptedUrls,
                   seededLearnings>>
    /\ UNCHANGED surprises

\* ---- deepResearch: the full pass ----------------------------------------
\* a faulty variant: the sequencing is walked from its end
CurrentName_backwards == plan.sequencing[Len(plan.sequencing) + 1 - idx]

CurrentName == plan.sequencing[idx]

Multiplier(nm) ==
    IF nm \in DOMAIN finalDepthMults /\ finalDepthMults[nm] # 0
    THEN finalDepthMults[nm] ELSE 1000

\* researchComponent is entered at time t for the component at idx
NewRc(t) ==
    LET comp == plan.components[FindComponent(plan, CurrentName)]
    IN  [name |-> CurrentName,
         subQuestions |-> AfterFirst(SubQuestions(comp)),
         nq |-> Len(AfterFirst(SubQuestions(comp))),
         j |-> 1,
         componentStartTime |-> t,
         componentLearnings |-> <<>>,
         componentUrls |-> <<>>,
         completedIterations |-> 0,
         adjustedDepth |-> AdjustedDepth(input.depth, Multiplier(CurrentName)),
         iterationStart |-> 0,
         saturRes |-> SaturationFallback]

ReturnedTimeStats ==
    [totalTime |-> now - startTime,
     componentTimes |->
        [nm \in DOMAIN componentResults |-> componentResults[nm].timeSpent],
     completedComponents |-> completedComponents,
     skippedComponents |-> skippedComponents,
     averageIterationTimeMs |-> researchStats.averageIterationTimeMs]

\* the loop over the sequencing is exhausted: deepResearch returns
Return ==
    /\ pc = "loop" /\ idx > Len(plan.sequencing)
    /\ timeStats' = ReturnedTimeStats
    /\ pc' = "done"
    /\ UNCHANGED <<now, input, plan, importanceScores, finalDepthMults,
                   researchStats, learnings, visitedUrls, wk, qf,
                   quickPassResults, timeState, idx, completedComponents,
                   skippedComponents, componentResults, rc, followups,
                   startTime, route, report, fault, acceptedUrls, seededLearnings, hist>>
    /\ UNCHANGED surprises

\* a sequencing name that names no component is passed over
UnknownName ==
    /\ pc = "loop" /\ idx <= Len(plan.sequencing)
    /\ FindComponent(plan, CurrentName) = 0
    /\ idx' = idx + 1
    /\ UNCHANGED <<pc, now, input, plan, importanceScores, finalDepthMults,
                   researchStats, learnings, visitedUrls, wk, qf,
                   quickPassResults, timeState, completedComponents,
                   skippedComponents, componentResults, rc, followups,
                   timeStats, startTime, route, report, fault, acceptedUrls,
                   seededLearnings, hist>>
    /\ UNCHANGED surprises

\* the head of the loop: tick, then shouldContinueComponent up to its LLM
\* call, or researchComponent when it returns true before that
LoopHead ==
    /\ pc = "loop" /\ idx <= Len(plan.sequencing)
    /\ FindComponent(plan, CurrentName) # 0
    /\ timeState' = UpdateResearchState(timeState, plan.sequencing,
                                        input.maxDuration, <<>>, 0, now)
    /\ IF ContinuesWithoutAsking(timeState', researchStats)
       THEN rc' = NewRc(now) /\ pc' = "subq"
       ELSE rc' = rc /\ pc' = "decide"
    /\ UNCHANGED <<now, input, plan, importanceScores, finalDepthMults,
                   researchStats, learnings, visitedUrls, wk, qf,
                   quickPassResults, idx, completedComponents,
                   skippedComponents, componentResults, followups,
                   timeStats, startTime, route, report, fault, acceptedUrls,
                   seededLearnings, hist>>
    /\ UNCHANGED surprises

\* a faulty variant: the skipped name is pushed twice
SkippedAfter_twice(skipped, nm) == Append(Append(skipped, nm), nm)

SkippedAfter(skipped, nm) == Append(skipped, nm)

\* the scheduling LLM answered (or failed: continue)
Decided(proceed, nominal) ==
    /\ pc = "decide"
    /\ \E t \in Times :
          /\ Charge(t, nominal) /\ now' = t
          /\ IF proceed
             THEN /\ rc' = NewRc(t)
                  /\ pc' = "subq"
                  /\ UNCHANGED <<skippedComponents, idx>>
             ELSE /\ skippedComponents' =
                         SkippedAfter(skippedComponents, CurrentName)
                  /\ idx' = idx + 1
                  /\ pc' = "loop"
                  /\ rc' = rc
    /\ UNCHANGED <<input, plan, importanceScores, finalDepthMults,
                   researchStats, learnings, visitedUrls, wk, qf,
                   quickPassResults, timeState, completedComponents,
                   componentResults, followups, timeStats, startTime, route, report,
                   fault, acceptedUrls, seededLearnings, hist>>

DecisionReturns == \E proceed \in BOOLEAN : Decided(proceed, proceed)

DecisionFails == Decided(TRUE, FALSE)

\* ---- researchComponent --------------------------------------------------
\* subQuestions.length - subQuestions.indexOf(question)
RemainingCount(subQuestions, question) ==
    Len(subQuestions) - (IndexOf(subQuestions, question) - 1)

EffectiveBreadth(breadth, remainingTime, remainingCount) ==
    IF remainingTime < ThirtySeconds * remainingCount THEN 1
    ELSE IF remainingTime < SixtySeconds * remainingCount
         THEN Max(1, breadth \div 2)
         ELSE breadth

EffectiveDepth(adjustedDepth, remainingTime, remainingCount) ==
    IF remainingTime < SixtySeconds * remainingCount THEN 1
    ELSE adjustedDepth

\* a faulty variant: the sub-questions go on whatever time is left
TooLate_never(remainingTime) == FALSE

\* "If less than 20s remain total, skip"
TooLate(remainingTime) == remainingTime < TwentySeconds

\* the head of the loop over the sub-questions, up to the first call of
\* deepResearchQuery or, when the loop ends, to the summary call
SubQuestionHead ==
    /\ pc = "subq"
    /\ LET currentState ==
               UpdateResearchState(timeState, <<>>, input.maxDuration,
                                   <<>>, 0, now)
           remainingCount ==
               IF rc.j > rc.nq THEN 0
               ELSE RemainingCount(rc.subQuestions, rc.subQuestions[rc.j])
           r == NewQuery(0, qf[0].serial + 1,
                         EffectiveBreadth(input.breadth,
                                          currentState.remainingTime,
                                          remainingCount),
                         EffectiveDepth(rc.adjustedDepth,
                                        currentState.remainingTime,
                                        remainingCount),
                         learnings \o rc.componentLearnings,
                         rc.componentUrls, currentState.remainingTime,
                         TRUE, researchStats, now)
       IN  IF rc.j > rc.nq \/ TooLate(currentState.remainingTime)
           THEN pc' = "csum" /\ UNCHANGED <<qf, rc>>
           ELSE /\ qf' = [qf EXCEPT ![0] = r.f]
                /\ rc' = [rc EXCEPT !.iterationStart = now]
                /\ pc' = "query"
    /\ UNCHANGED <<now, input, plan, importanceScores, finalDepthMults,
                   researchStats, learnings, visitedUrls, wk,
                   quickPassResults, timeState, idx, completedComponents,
                   skippedComponents, componentResults, followups,
                   timeStats, startTime, route, report, fault, acceptedUrls,
                   seededLearnings, hist>>
    /\ UNCHANGED surprises

\* what an activation added to the lists it was given
NewPart(all, given) == SubSeq(all, Len(given) + 1, Len(all))

\* componentLearnings.push(...result.learnings)
PushResult(componentLearnings, resultLearnings) ==
    componentLearnings \o resultLearnings

\* deepResearchQuery returned to researchComponent: statistics, the
\* component's lists, then the saturation call
IterationDone ==
    /\ pc = "query" /\ qf[0].at = "ret"
    /\ researchStats' = RecordIteration(researchStats,
                                        now - rc.iterationStart)
    /\ rc' = [rc EXCEPT
                !.completedIterations = @ + 1,
                !.componentLearnings = PushResult(@, qf[0].cl),
                !.componentUrls = @ \o qf[0].cu,
                !.j = IF BelowMinimalIterations(rc.completedIterations + 1,
                                                rc.nq)
                      THEN @ + 1 ELSE @]
    /\ pc' = IF BelowMinimalIterations(rc.completedIterations + 1, rc.nq)
             THEN "subq" ELSE "csat"
    /\ hist' = [hist EXCEPT ![rc.name] =
                  [@ EXCEPT
                     !.deepNew = @ \o NewPart(qf[0].cl,
                                    learnings \o rc.componentLearnings),
                     !.iterSum = @ + (now - rc.iterationStart)]]
    /\ UNCHANGED <<now, input, plan, importanceScores, finalDepthMults,
                   learnings, visitedUrls, wk, qf, quickPassResults,
                   timeState, idx, completedComponents, skippedComponents,
                   componentResults, followups, timeStats, startTime, route, report, fault,
                   acceptedUrls, seededLearnings>>
    /\ UNCHANGED surprises

\* a faulty variant: only the evaluator's flag ends the loop
Saturated_flagOnly(sat) == sat.isSaturated

Saturated(sat) ==
    sat.isSaturated \/ sat.coveragePercentage >= ComponentCoverage

SaturationDone(sat, nominal) ==
    /\ pc = "csat"
    /\ \E t \in Times :
          /\ Charge(t, nominal) /\ now' = t
          /\ hist' = [hist EXCEPT ![rc.name].otherSum = @ + (t - now)]
    /\ IF Saturated(sat)
       THEN pc' = "csum" /\ rc' = [rc EXCEPT !.saturRes = sat]
       ELSE pc' = "subq" /\ rc' = [rc EXCEPT !.j = @ + 1, !.saturRes = sat]
    /\ UNCHANGED <<input, plan, importanceScores, finalDepthMults,
                   researchStats, learnings, visitedUrls, wk, qf,
                   quickPassResults, timeState, idx, completedComponents,
                   skippedComponents, componentResults, followups,
                   timeStats, startTime, route, report, fault, acceptedUrls,
                   seededLearnings>>

SaturationReturns ==
    \E sat \in SaturationAnswers :
       SaturationDone(sat, sat = NominalSaturation)

SaturationFails == SaturationDone(SaturationFallback, FALSE)

EmptyResult ==
    [learnings |-> <<>>, visitedUrls |-> <<>>, summary |-> "",
     timeSpent |-> 0]

QuickData(nm) ==
    IF nm \in DOMAIN quickPassResults THEN quickPassResults[nm]
    ELSE EmptyResult

\* the component's wall-clock time
ComponentTimeSpent(componentStartTime, componentEndTime) ==
    componentEndTime - componentStartTime

\* a faulty variant: the quick pass's time is dropped
MergedResult_deepOnly(quickData, deepLearnings, deepUrls, summary, timeSpent) ==
    [learnings |-> quickData.learnings \o deepLearnings,
     visitedUrls |-> quickData.visitedUrls \o deepUrls,
     summary |-> summary,
     timeSpent |-> timeSpent]

\* the "Merge" of deepResearch
MergedResult(quickData, deepLearnings, deepUrls, summary, timeSpent) ==
    [learnings |-> quickData.learnings \o deepLearnings,
     visitedUrls |-> quickData.visitedUrls \o deepUrls,
     summary |-> summary,
     timeSpent |-> quickData.timeSpent + timeSpent]

\* the summary call of researchComponent returned (summary is "llm" or
\* "fallback"): the component's result is merged, the component completed,
\* and evaluateComponentQuality runs up to its LLM call
SummaryDone(summary) ==
    /\ pc = "csum"
    /\ \E t \in Times :
          /\ Charge(t, summary = "llm") /\ now' = t
          /\ componentResults' =
                (rc.name :>
                   MergedResult(QuickData(rc.name), rc.componentLearnings,
                                rc.componentUrls, summary,
                                ComponentTimeSpent(rc.componentStartTime, t)))
                @@ componentResults
          /\ timeState' =
                UpdateResearchState(timeState, plan.sequencing,
                                    input.maxDuration, <<rc.name>>,
                                    componentResults'[rc.name].timeSpent, t)
          /\ hist' = [hist EXCEPT ![rc.name] =
                        [@ EXCEPT !.otherSum = @ + (t - now),
                                  !.gaps = FALSE, !.followupCalls = 0]]
    /\ completedComponents' = Append(completedComponents, rc.name)
    /\ learnings' = learnings \o rc.componentLearnings
    /\ visitedUrls' = visitedUrls \o rc.componentUrls
    /\ IF timeState'.remainingTime < ThreeMinutes
       THEN pc' = "loop" /\ idx' = idx + 1
       ELSE pc' = "quality" /\ idx' = idx
    /\ UNCHANGED <<input, plan, importanceScores, finalDepthMults,
                   researchStats, wk, qf, quickPassResults,
                   skippedComponents, rc, followups, timeStats, startTime, route, report,
                   fault, acceptedUrls, seededLearnings>>

SummaryReturns == SummaryDone("llm")

SummaryFails == SummaryDone("fallback")

\* ---- the quality check and its follow-up queries ------------------------
\* meetsQuality and the number of additionalQueries
QualityAnswers == [meetsQuality : BOOLEAN, additional : {0, 1, 3}]

QualityFallback == [meetsQuality |-> TRUE, additional |-> 0]

FollowupQuery(ls, us, t) ==
    NewQuery(0, qf[0].serial + 1, FollowupBreadth, FollowupDepth, ls, us,
             timeState.remainingTime, TRUE, researchStats, t).f

\* a faulty variant: the additional queries are run whatever meetsQuality
NeedsFollowup_anyQuality(qc, remainingTime) ==
    qc.additional > 0 /\ remainingTime > ThreeMinutes

\* the condition of the follow-up queries
NeedsFollowup(qc, remainingTime) ==
    /\ ~qc.meetsQuality
    /\ qc.additional > 0
    /\ remainingTime > ThreeMinutes

QualityDone(qc, nominal) ==
    /\ pc = "quality"
    /\ \E t \in Times :
          /\ Charge(t, nominal) /\ now' = t
          /\ IF NeedsFollowup(qc, timeState.remainingTime)
             THEN /\ followups' = Min(qc.additional, MaxFollowups)
                  /\ qf' = [qf EXCEPT ![0] =
                               FollowupQuery(learnings, visitedUrls, t)]
                  /\ pc' = "followup"
                  /\ idx' = idx
             ELSE /\ pc' = "loop"
                  /\ idx' = idx + 1
                  /\ UNCHANGED <<followups, qf>>
    /\ hist' = [hist EXCEPT ![rc.name] =
                  [@ EXCEPT
                     !.gaps = ~qc.meetsQuality /\ qc.additional > 0,
                     !.followupCalls = IF pc' = "followup" THEN 1 ELSE 0]]
    /\ UNCHANGED <<input, plan, importanceScores, finalDepthMults,
                   researchStats, learnings, visitedUrls, wk,
                   quickPassResults, timeState, completedComponents,
                   skippedComponents, componentResults, rc, timeStats,
                   startTime, route, report, fault, acceptedUrls, seededLearnings>>

QualityReturns ==
    \E qc \in QualityAnswers : QualityDone(qc, qc = QualityFallback)

QualityFails == QualityDone(QualityFallback, FALSE)

\* a follow-up query returned: its lists are pushed, then the next
\* follow-up or the summary update is launched
FollowupDone ==
    /\ pc = "followup" /\ qf[0].at = "ret"
    /\ componentResults' =
          [componentResults EXCEPT ![rc.name] =
              [@ EXCEPT !.learnings = @ \o qf[0].cl,
                        !.visitedUrls = @ \o qf[0].cu]]
    /\ learnings' = learnings \o qf[0].cl
    /\ visitedUrls' = visitedUrls \o qf[0].cu
    /\ followups' = followups - 1
    /\ IF followups' > 0
       THEN /\ qf' = [qf EXCEPT ![0] =
                         FollowupQuery(learnings', visitedUrls', now)]
            /\ pc' = "followup"
       ELSE /\ qf' = qf
            /\ pc' = "updsum"
    /\ hist' = [hist EXCEPT ![rc.name] =
                  [@ EXCEPT
                     !.deepNew = @ \o NewPart(qf[0].cl, learnings),
                     !.followupCalls = IF followups' > 0 THEN @ + 1 ELSE @]]
    /\ UNCHANGED <<now, input, plan, importanceScores, finalDepthMults,
                   researchStats, wk, quickPassResults, timeState, idx,
                   completedComponents, skippedComponents, rc, timeStats,
                   startTime, route, report, fault, acceptedUrls, seededLearnings>>
    /\ UNCHANGED surprises

\* the summary update returned ("llm") or failed (the old summary stays)
UpdateSummaryDone(ok) ==
    /\ pc = "updsum"
    /\ \E t \in Times : Charge(t, ok) /\ now' = t
    /\ componentResults' =
          IF ok
          THEN [componentResults EXCEPT ![rc.name] =
                   [@ EXCEPT !.summary = "llm"]]
          ELSE componentResults
    /\ idx' = idx + 1
    /\ pc' = "loop"
    /\ UNCHANGED <<input, plan, importanceScores, finalDepthMults,
                   researchStats, learnings, visitedUrls, wk, qf,
                   quickPassResults, timeState, completedComponents,
                   skippedComponents, rc, followups, timeStats, startTime, route, report,
                   fault, acceptedUrls, seededLearnings, hist>>

UpdateSummaryReturns == UpdateSummaryDone(TRUE)

UpdateSummaryFails == UpdateSummaryDone(FALSE)

\* ---- the specification --------------------------------------------------
QueryStep(o) ==
    \/ GenerateSubQueriesReturns(o)
    \/ GenerateSubQueriesThrows(o)
    \/ SearchReturns(o)
    \/ RetryReturns(o)
    \/ SearchThrows(o)
    \/ SummarizerReturns(o)
    \/ SummarizerThrows(o)
    \/ AnalysisReturns(o)
    \/ AnalysisFails(o)
    \/ MidSaturationReturns(o)
    \/ MidSaturationFails(o)

\* ---- the test mode: one call of writeFinalReport ------------------------
ReportFrame ==
    UNCHANGED <<input, plan, importanceScores, finalDepthMults,
                researchStats, learnings, visitedUrls, wk, qf,
                quickPassResults, timeState, idx, completedComponents,
                skippedComponents, componentResults, rc, followups,
                timeStats, startTime, route, fault, acceptedUrls,
                seededLearnings, hist>>

\* a faulty variant: only the last delta is kept
AfterDelta_last(r, d) == [r EXCEPT !.finalReport = <<d>>]

\* finalReport += text
AfterDelta(r, d) == [r EXCEPT !.finalReport = @ \o <<d>>]

\* the catch of writeFinalReport: fallbackReportGeneration is called
Fallback(r) == [r EXCEPT !.at = "fallback", !.synthesisFailed = TRUE]

\* a faulty variant: success whatever writeFinalReport did
TestResult_always(r, value) ==
    [success |-> TRUE, report |-> value]

\* the result of the test mode: r.at is "ret" when writeFinalReport
\* returned value, "threw" when it threw
TestResult(r, value) ==
    [success |-> r.at = "ret", report |-> IF r.at = "ret" THEN value ELSE <<>>]

\* writeFinalReport has returned value (a sequence of one report) or thrown
\* (none): the test mode's try and catch, and deepResearch returns
Tested(r, outcome, value) ==
    LET ended == [r EXCEPT !.at = outcome, !.returned = value]
    IN  [ended EXCEPT !.apiTestResult = <<TestResult(ended, value)>>]

SynthesisCreateReturns ==
    /\ pc = "test" /\ report.at = "create"
    /\ \E t \in Times : Charge(t, TRUE) /\ now' = t
    /\ report' = [report EXCEPT !.at = "stream"]
    /\ UNCHANGED pc
    /\ ReportFrame

SynthesisCreateFails ==
    /\ pc = "test" /\ report.at = "create"
    /\ \E t \in Times : Charge(t, FALSE) /\ now' = t
    /\ report' = Fallback(report)
    /\ UNCHANGED pc
    /\ ReportFrame

\* a text delta arrives
StreamDelta ==
    /\ pc = "test" /\ report.at = "stream"
    /\ Len(report.deltas) < MaxDeltas
    /\ \E t \in Times : Charge(t, TRUE) /\ now' = t
    /\ \E d \in Deltas :
          report' = [AfterDelta(report, d) EXCEPT
                        !.deltas = Append(report.deltas, d)]
    /\ UNCHANGED pc
    /\ ReportFrame

\* the stream raises
StreamFails ==
    /\ pc = "test" /\ report.at = "stream"
    /\ \E t \in Times : Charge(t, FALSE) /\ now' = t
    /\ report' = Fallback(report)
    /\ UNCHANGED pc
    /\ ReportFrame

\* the stream ends: return finalReport
StreamEnds ==
    /\ pc = "test" /\ report.at = "stream"
    /\ \E t \in Times : Charge(t, TRUE) /\ now' = t
    /\ report' = Tested(report, "ret", <<report.finalReport>>)
    /\ pc' = "tested"
    /\ ReportFrame

\* fallbackReportGeneration returns res.object.reportMarkdown
FallbackReportReturns ==
    /\ pc = "test" /\ report.at = "fallback"
    /\ \E t \in Times : Charge(t, TRUE) /\ now' = t
    /\ report' = Tested(report, "ret", <<ReportMarkdown>>)
    /\ pc' = "tested"
    /\ ReportFrame

\* the primary model's call throws, and so does writeFinalReport
FallbackReportThrows ==
    /\ pc = "test" /\ report.at = "fallback"
    /\ \E t \in Times : Charge(t, FALSE) /\ now' = t
    /\ report' = Tested(report, "threw", <<>>)
    /\ pc' = "tested"
    /\ ReportFrame

\* the steps of the test mode
TestNext ==
    \/ SynthesisCreateReturns
    \/ SynthesisCreateFails
    \/ StreamDelta
    \/ StreamFails
    \/ StreamEnds
    \/ FallbackReportReturns
    \/ FallbackReportThrows

\* the steps of a research run
ResearchNext ==
    \/ PlanReturns
    \/ PlanFails
    \/ ImportanceReturns
    \/ ImportanceFails
    \/ \E o \in Owners : QueryStep(o)
    \/ \E i \in Owners : WorkerSummaryReturns(i)
    \/ \E i \in Owners : WorkerSummaryFails(i)
    \/ QuickPassJoin
    \/ Return
    \/ UnknownName
    \/ LoopHead
    \/ DecisionReturns
    \/ DecisionFails
    \/ SubQuestionHead
    \/ IterationDone
    \/ SaturationReturns
    \/ SaturationFails
    \/ SummaryReturns
    \/ SummaryFails
    \/ QualityReturns
    \/ QualityFails
    \/ FollowupDone
    \/ UpdateSummaryReturns
    \/ UpdateSummaryFails

Next == TestNext \/ ResearchNext

Spec == Init /\ [][Next]_vars

\* ---- the request handler (route.ts POST) --------------------------------
\* The handler arms a timer of GlobalTimeout, opens the sink and awaits, in
\* turn, generateFeedback, deepResearch and writeFinalReport (pc = "done"
\* with the handler open: the report call is in flight).  The caller gives
\* breadth and depth, so generateResearchParameters is not called.
OpenRoute ==
    [phase |-> "open", aborted |-> FALSE, timer |-> TRUE,
     sinkClosed |-> FALSE, connected |-> TRUE, deadline |-> GlobalTimeout,
     events |-> <<>>, lostWrites |-> FALSE]

\* POST has armed the timer and awaits req.json()
ArmedRoute ==
    [OpenRoute EXCEPT !.phase = "request", !.connected = FALSE]

\* the handler passes neither learnings nor visitedUrls to deepResearch
\* the handler passes no prior learnings and no testAnthropicMode; the
\* requests taken are those for the live search service without depth
\* multipliers
RouteInputs ==
    {i \in Inputs :
        /\ ~i.prior /\ ~i.testAnthropicMode
        /\ i.firecrawl = "live"
        /\ i.componentDepthMultipliers = <<>>}

RouteInit == InitAt("request", ArmedRoute) /\ input \in RouteInputs

MainCalls ==
    {"feedback", "plan", "importance", "decide", "csat", "csum", "quality",
     "updsum"}

\* the external calls the program is waiting for
InFlight ==
    (IF pc \in MainCalls \/ (pc = "done" /\ route.phase = "open")
     THEN {<<0, pc, idx, rc.j, 0>>} ELSE {})
    \cup {<<o, qf[o].at, qf[o].serial, qf[o].d, qf[o].sqLeft>> :
             o \in {x \in Owners : Active(x)
                                      /\ qf[x].at \notin {"ret", "idle"}}}
    \cup {<<i, "wsum", 0, 0, 0>> :
             i \in {x \in DOMAIN wk : pc = "quick" /\ wk[x].at = "wsum"}}

ResearchUnchanged ==
    UNCHANGED <<input, plan, importanceScores, finalDepthMults,
                researchStats, learnings, visitedUrls, wk, qf,
                quickPassResults, timeState, idx, completedComponents,
                skippedComponents, componentResults, rc, followups,
                timeStats, acceptedUrls, seededLearnings, hist, report>>

\* safeWrite of a last event, then the finally block
Finally(r, event) ==
    [r EXCEPT !.events = Append(@, [type |-> event,
                                    delivered |-> ~r.sinkClosed]),
              !.timer = FALSE, !.sinkClosed = TRUE, !.phase = "closed"]

\* the catch block's event
ErrorEvent(r) == IF r.aborted THEN "aborted" ELSE "failed"

\* the body parsed, the keys accepted, the model and the stream created,
\* the abort listener added and the research task started up to its
\* first call
RequestAccepted ==
    /\ pc = "request"
    /\ pc' = "feedback"
    /\ route' = OpenRoute
    /\ UNCHANGED <<now, startTime, fault, surprises>>
    /\ ResearchUnchanged

\* the ways the handler answers without opening the sink
Rejections == {"keys", "model", "parse"}

\* the response returned for a rejection: the early return for missing
\* keys leaves the timer armed, the two catch blocks clear it
Rejected(r, cause) ==
    [r EXCEPT !.phase = "rejected",
              !.timer = (cause = "keys"),
              !.events = Append(@, [type |-> cause, delivered |-> TRUE])]

RequestRejected ==
    /\ pc = "request"
    /\ pc' = "rejected"
    /\ \E cause \in Rejections : route' = Rejected(route, cause)
    /\ UNCHANGED <<now, startTime, fault, surprises>>
    /\ ResearchUnchanged

\* the timer of a request answered long ago fires: controller.abort()
LeftoverTimerFires ==
    /\ route.phase = "rejected" /\ route.timer
    /\ now' = Max(now, route.deadline)
    /\ route' = [route EXCEPT !.aborted = TRUE, !.timer = FALSE]
    /\ UNCHANGED <<pc, startTime, fault, surprises>>
    /\ ResearchUnchanged

FeedbackReturns ==
    /\ pc = "feedback"
    /\ \E t \in Times : Charge(t, TRUE) /\ now' = t /\ startTime' = t
    /\ pc' = "plan"
    /\ UNCHANGED <<route, fault>>
    /\ ResearchUnchanged

FeedbackThrows ==
    /\ pc = "feedback"
    /\ \E t \in Times : Charge(t, TRUE) /\ now' = t
    /\ pc' = "threw"
    /\ fault' = [kind |-> "feedback", phase |-> "feedback", owner |-> 0]
    /\ route' = Finally(route, ErrorEvent(route))
    /\ UNCHANGED startTime
    /\ ResearchUnchanged

\* deepResearch threw: the handler's catch and finally
ResearchFails ==
    /\ pc = "threw" /\ route.phase = "open"
    /\ route' = Finally(route, ErrorEvent(route))
    /\ UNCHANGED <<pc, now, startTime, fault, surprises>>
    /\ ResearchUnchanged

ReportReturns ==
    /\ pc = "done" /\ route.phase = "open"
    /\ \E t \in Times : Charge(t, TRUE) /\ now' = t
    /\ route' = Finally(route, "result")
    /\ UNCHANGED <<pc, startTime, fault>>
    /\ ResearchUnchanged

ReportThrows ==
    /\ pc = "done" /\ route.phase = "open"
    /\ \E t \in Times : Charge(t, TRUE) /\ now' = t
    /\ pc' = "threw"
    /\ fault' = [kind |-> "report", phase |-> "report", owner |-> 0]
    /\ route' = Finally(route, ErrorEvent(route))
    /\ UNCHANGED startTime
    /\ ResearchUnchanged

\* req.signal's abort listener; it runs while the program awaits a call
ClientDisconnects ==
    /\ route.phase = "open" /\ route.connected /\ InFlight # {}
    /\ surprises < MaxSurprises
    /\ surprises' = surprises + 1
    /\ route' = [route EXCEPT !.aborted = TRUE, !.timer = FALSE,
                              !.sinkClosed = TRUE, !.connected = FALSE]
    /\ UNCHANGED <<pc, now, startTime, fault>>
    /\ ResearchUnchanged

\* the timer's callback; the calls in flight are still pending at the
\* deadline
TimerFires ==
    /\ route.phase = "open" /\ route.timer /\ InFlight # {}
    /\ surprises < MaxSurprises
    /\ surprises' = surprises + 1
    /\ now' = Max(now, route.deadline)
    /\ route' = [route EXCEPT !.aborted = TRUE, !.timer = FALSE]
    /\ UNCHANGED <<pc, startTime, fault>>
    /\ ResearchUnchanged

\* a faulty variant: the failure of the write is not caught
SafeWrite_raising(r) == [route |-> r, raised |-> r.sinkClosed]

\* safeWrite of a progress event: writer.write fails on a closed sink, the
\* failure is caught and false returned, which no caller reads
SafeWrite(r) ==
    [route |-> [r EXCEPT !.lostWrites = @ \/ r.sinkClosed], raised |-> FALSE]

\* the onProgress callbacks the handler passes to deepResearch and to
\* writeFinalReport, called between the calls these await
OnProgress ==
    /\ route.phase = "open" /\ pc \notin {"feedback", "threw"}
    /\ LET w == SafeWrite(route)
       IN  /\ route' = w.route
           /\ IF w.raised
              THEN /\ pc' = "threw"
                   /\ fault' = [kind |-> "write", phase |-> "progress",
                                owner |-> 0]
              ELSE UNCHANGED <<pc, fault>>
    /\ UNCHANGED <<now, startTime, surprises>>
    /\ ResearchUnchanged

RouteNext ==
    \/ ResearchNext
    \/ RequestAccepted
    \/ RequestRejected
    \/ LeftoverTimerFires
    \/ OnProgress
    \/ FeedbackReturns
    \/ FeedbackThrows
    \/ ResearchFails
    \/ ReportReturns
    \/ ReportThrows
    \/ ClientDisconnects
    \/ TimerFires

SpecRoute == RouteInit /\ [][RouteNext]_vars

\* ---- runs in which every call returns -----------------------------------
\* deepResearch awaits one call at a time (the quick pass awaits its tasks
\* together): when the calls awaited return, the step that follows a return
\* is taken as long as one is possible.  A call may still throw.
Returns == Next /\ pc' # "threw"

LiveInputs ==
    {i \in Inputs : ~i.prior /\ i.componentDepthMultipliers = <<>>}

LiveInit == Init /\ input \in LiveInputs

SpecLive == LiveInit /\ [][Next]_vars /\ WF_vars(Returns)

\* ==== the claims ==========================================================

\* C1 (as stated): when deepResearch returns, timeStats.totalTime is at
\* most maxDuration minutes plus the duration of one iteration (the
\* longest iteration of the run is allowed as the slack).
C1_TotalTimeWithinBudget ==
    pc = "done" =>
       timeStats.totalTime
          <= Budget(input.maxDuration) + SeqMax(researchStats.iterationTimes)

\* C2: at every point, every name in completedComponents or
\* skippedComponents is a name of plan.sequencing, and the two lists
\* together are no longer than plan.sequencing.
C2_CompletedAndSkippedWithinSequencing ==
    /\ Range(completedComponents) \cup Range(skippedComponents)
          \subseteq Range(plan.sequencing)
    /\ Len(completedComponents) + Len(skippedComponents)
          <= Len(plan.sequencing)

\* C2, its case: the full pass has completed one component and skipped
\* another.
C2_Witness ==
    /\ pc = "done"
    /\ completedComponents # <<>>
    /\ skippedComponents # <<>>

\* C3 (amended): in every ResearchState of a run, completed and remaining
\* are disjoint, inProgress is the first name of remaining (null when
\* remaining is empty), and completed and remaining together hold exactly
\* the names of plan.sequencing.
C3_CompletedRemainingInProgress ==
    timeState # NullState =>
       /\ Range(timeState.completed) \cap Range(timeState.remaining) = {}
       /\ timeState.inProgress =
             IF timeState.remaining = <<>> THEN <<>>
             ELSE <<Head(timeState.remaining)>>
       /\ Range(timeState.completed) \cup Range(timeState.remaining)
             = Range(plan.sequencing)

\* C3, its case: a component has been completed while others remain.
C3_Witness ==
    /\ timeState # NullState
    /\ timeState.completed # <<>>
    /\ timeState.remaining # <<>>

\* C3 (as stated): in every ResearchState, completed, remaining and
\* {inProgress} are pairwise disjoint and together hold exactly the plan's
\* component names.
C3_Partition ==
    timeState # NullState =>
       LET done == Range(timeState.completed)
           left == Range(timeState.remaining)
           cur == Range(timeState.inProgress)
       IN  /\ done \cap left = {}
           /\ done \cap cur = {}
           /\ left \cap cur = {}
           /\ done \cup left \cup cur = ComponentNames(plan)

\* C4 (as stated): a search call that throws while a component is being
\* researched in the full pass does not end the run.
C4_SearchFailureContained ==
    (fault.kind = "search" /\ fault.phase # "quick") => pc # "threw"

\* C5 (as stated): a failure of the sub-query LLM call or of the search
\* summarizer LLM call is replaced by a fallback and never leaves the
\* operation that made the call as an exception.
C5_LLMFailureContained ==
    fault.kind \in {"subqueries", "summarizer"} => pc # "threw"

\* C6 (as stated): a failure in one quick-pass worker does not abort the
\* quick pass; the run goes on into the full pass.
C6_WorkerFailureIsolated ==
    fault.phase = "quick" => pc # "threw"

\* C7 (as stated): once the cancel signal has fired, no further LLM or
\* search call is launched: every call in flight after a step was in flight
\* before it.
C7_NoLaunchAfterCancel ==
    [][route.aborted => InFlight' \subseteq InFlight]_vars

\* C8 (amended): at every point, every url held by the run (top-level,
\* per component, in an activation) is one the caller supplied or was
\* returned by a search of this run accepted as meaningful, and every
\* learning is one the caller supplied or was returned by a summarizer call
\* given a non-empty markdown body; so a sub-query whose search and
\* fallback search are both rejected adds nothing.
C8_Provenance ==
    LET urls == acceptedUrls
                   \cup (IF input.prior THEN {PriorUrl} ELSE {})
        known == seededLearnings
                    \cup (IF input.prior THEN {PriorLearning} ELSE {})
    IN  /\ Range(visitedUrls) \subseteq urls
        /\ Range(learnings) \subseteq known
        /\ \A o \in Owners :
              /\ Range(qf[o].cu) \subseteq urls
              /\ Range(qf[o].cl) \subseteq known
        /\ \A c \in DOMAIN componentResults :
              /\ Range(componentResults[c].visitedUrls) \subseteq urls
              /\ Range(componentResults[c].learnings) \subseteq known

\* C8, its case: a run given prior urls and learnings has returned them
\* together with urls of an accepted search and learnings of a summarizer.
C8_Witness ==
    /\ pc = "done"
    /\ PriorUrl \in Range(visitedUrls)
    /\ PriorLearning \in Range(learnings)
    /\ Range(visitedUrls) \cap acceptedUrls # {}
    /\ Range(learnings) \cap seededLearnings # {}

\* C8 (as stated): every returned url was returned by an accepted search
\* of this run and every returned learning by a summarizer call of this
\* run.
C8_OnlyThisRun ==
    pc = "done" =>
       /\ Range(visitedUrls) \subseteq acceptedUrls
       /\ Range(learnings) \subseteq seededLearnings

\* C9 (as stated): for every completed component c,
\* componentResults[c].learnings is c's quick-pass learnings once, followed
\* only by the learnings c's own deep research newly produced.
C9_OwnLearningsOnce ==
    \A c \in Range(completedComponents) :
       c \in DOMAIN componentResults =>
          componentResults[c].learnings = hist[c].quick \o hist[c].deepNew

\* C10 (amended): for every component c with a ComponentResult, timeSpent
\* is the sum of the durations of c's iterations (quick pass and
\* sub-questions) plus the time of the saturation and summary calls that
\* researchComponent awaited for c.
C10_TimeSpentIsWallClock ==
    \A c \in DOMAIN componentResults :
       /\ componentResults[c].timeSpent
             = hist[c].iterSum + hist[c].otherSum
       /\ timeState.componentTimes[c] = componentResults[c].timeSpent

\* C10, its case: a component whose iterations and whose saturation or
\* summary calls both took time.
C10_Witness ==
    \E c \in DOMAIN componentResults :
       hist[c].iterSum > 0 /\ hist[c].otherSum > 0

\* C10 (as stated): timeSpent equals the sum of the durations of the
\* iterations run for c, with no other time counted.
C10_TimeSpentIsIterationSum ==
    \A c \in DOMAIN componentResults :
       componentResults[c].timeSpent = hist[c].iterSum

\* C11 (as stated): every result the saturation evaluator returned, to
\* researchComponent or to deepResearchQuery, has its coveragePercentage
\* within 0 .. 100.
C11_CoverageWithinRange ==
    /\ rc.saturRes.coveragePercentage \in 0 .. 100
    /\ \A o \in Owners : qf[o].saturEval.coveragePercentage \in 0 .. 100

\* researchComponent left its loop at the "under 20 s" check before any
\* iteration, with sub-questions still to research
Starved ==
    /\ pc \in {"loop", "decide", "quality", "followup", "updsum", "done"}
    /\ rc.name # ""
    /\ rc.completedIterations = 0
    /\ rc.j <= rc.nq

\* C12 (as stated): a component that received no research because under
\* 20 s remained is recorded in skippedComponents and is not reported in
\* completedComponents.
C12_StarvedIsSkipped ==
    Starved =>
       /\ rc.name \in Range(skippedComponents)
       /\ rc.name \notin Range(completedComponents)

\* C13 (as stated): every plan the planner returned, and every plan the
\* rebalancer returned, has at least one component, pairwise distinct
\* component names, and a sequencing that is a permutation of the
\* component names.
C13_PlanWellFormed ==
    pc \notin {"request", "rejected", "feedback", "plan", "test", "tested"} =>
       /\ Len(plan.components) >= 1
       /\ Cardinality(ComponentNames(plan)) = Len(plan.components)
       /\ Len(plan.sequencing) = Len(plan.components)
       /\ Range(plan.sequencing) = ComponentNames(plan)

\* clamp(x, lo, hi)
Clamp(x, lo, hi) == Max(lo, Min(x, hi))

\* C14 (as stated): for every component without a caller-supplied
\* multiplier the final depth multiplier is
\* clamp(0.5 + (score / mean_score) * 0.75, 0.5, 2.0), in thousandths.
C14_MultiplierClamped ==
    \A nm \in DOMAIN finalDepthMults :
       nm \notin DOMAIN input.componentDepthMultipliers =>
          finalDepthMults[nm]
             = Clamp(DynamicMult(Score(importanceScores, nm),
                                 Len(plan.components)), 500, 2000)

\* t is s reordered by non-increasing score, equal scores in the order of s
StableDescending(s, t, scores) ==
    /\ Len(t) = Len(s)
    /\ \E f \in [DOMAIN t -> DOMAIN s] :
          /\ \A i, j \in DOMAIN t : i # j => f[i] # f[j]
          /\ \A i \in DOMAIN t : t[i] = s[f[i]]
          /\ \A i, j \in DOMAIN t :
                i < j =>
                   \/ Score(scores, t[i]) > Score(scores, t[j])
                   \/ /\ Score(scores, t[i]) = Score(scores, t[j])
                      /\ f[i] < f[j]

\* C15: the rebalancer returns a permutation of the input sequencing in
\* non-increasing order of importance score, names of equal score keeping
\* their input order; when all scores are equal the sequencing is unchanged.
C15_RebalanceIsStableSort ==
    [][pc = "quick" /\ pc' = "loop" =>
          /\ StableDescending(plan.sequencing, plan'.sequencing,
                              importanceScores)
          /\ plan'.components = plan.components
          /\ (\A a, b \in Range(plan.sequencing) :
                 Score(importanceScores, a) = Score(importanceScores, b))
                => plan'.sequencing = plan.sequencing]_vars

\* the last of three names scored highest and moved to the front, the two
\* names of equal score behind it in their input order
C15_Witness ==
    /\ pc = "loop"
    /\ plan.sequencing = <<"C", "A", "B">>
    /\ Score(importanceScores, "A") = Score(importanceScores, "B")
    /\ Score(importanceScores, "C") > Score(importanceScores, "A")

\* the fields of a research state other than the three time fields
NonTime(s) ==
    [startTime |-> s.startTime, completed |-> s.completed,
     inProgress |-> s.inProgress, remaining |-> s.remaining,
     componentTimes |-> s.componentTimes]

\* updateResearchState called at time t with a state and no
\* completedComponent
Tick(s, t) ==
    UpdateResearchState(s, plan.sequencing, input.maxDuration, <<>>, 0, t)

\* C16: the refresh at the head of the full-pass loop changes only
\* currentTime, elapsedTime and remainingTime, and a second refresh of the
\* refreshed state (at the same or a later time) leaves every other field
\* as the first did.
C16_TickChangesOnlyTime ==
    [][pc = "loop" /\ pc' \in {"subq", "decide"} =>
          /\ timeState' = Tick(timeState, now)
          /\ NonTime(timeState') = NonTime(timeState)
          /\ \A t \in {now + dur : dur \in 0 .. ThreeMinutes} :
                NonTime(Tick(timeState', t)) = NonTime(timeState')]_vars

\* a refresh has just moved the time fields of a state that already holds
\* a completed component and its time
C16_Witness ==
    /\ pc \in {"subq", "decide"}
    /\ timeState.currentTime = now
    /\ timeState.elapsedTime > 0
    /\ timeState.completed # <<>>
    /\ rc.name \notin Range(timeState.completed)
    /\ rc.componentStartTime = now \/ pc = "decide"

\* C17: from one research state to the next (created, refreshed or
\* completed), with a clock that does not go back, remainingTime never
\* increases, and it is never below 0.
C17_RemainingTimeMonotone ==
    [][/\ now' >= now
       /\ timeState'.remainingTime >= 0
       /\ timeState # NullState =>
             /\ timeState' # NullState
             /\ timeState'.remainingTime <= timeState.remainingTime]_vars

\* the budget ran out in a state past its creation: a component completed
\* after more time than the budget, and remainingTime stopped at 0
C17_Witness ==
    /\ timeState # NullState
    /\ timeState.completed # <<>>
    /\ timeState.elapsedTime > Budget(input.maxDuration)
    /\ timeState.remainingTime = 0

\* t is s without its occurrences of nm, the other names in their order
WithoutName(s, t, nm) ==
    LET kept == {i \in DOMAIN s : s[i] # nm}
    IN  /\ Len(t) = Cardinality(kept)
        /\ \E f \in [DOMAIN t -> kept] :
              /\ \A i, j \in DOMAIN t : i < j => f[i] < f[j]
              /\ \A i \in DOMAIN t : t[i] = s[f[i]]

\* C18: completing a component puts its name in completed, takes it out
\* of remaining, records the time spent under its name, leaves the other
\* recorded times and the order of the other remaining names as they were,
\* and sets inProgress to the first name of the new remaining list (none
\* when that list is empty).
C18_CompleteMovesName ==
    [][pc = "csum" /\ pc' \in {"loop", "quality"} =>
          /\ rc.name \in Range(timeState'.completed)
          /\ rc.name \notin Range(timeState'.remaining)
          /\ rc.name \in DOMAIN timeState'.componentTimes
          /\ timeState'.componentTimes[rc.name]
                = componentResults'[rc.name].timeSpent
          /\ DOMAIN timeState'.componentTimes
                = DOMAIN timeState.componentTimes \cup {rc.name}
          /\ \A nm \in DOMAIN timeState.componentTimes \ {rc.name} :
                timeState'.componentTimes[nm] = timeState.componentTimes[nm]
          /\ WithoutName(timeState.remaining, timeState'.remaining, rc.name)
          /\ timeState'.inProgress
                = IF timeState'.remaining = <<>> THEN <<>>
                  ELSE <<timeState'.remaining[1]>>]_vars

\* a second component has completed while a third name remains: a recorded
\* time and a remaining name were there to be left alone
C18_Witness ==
    /\ pc \in {"loop", "quality"}
    /\ Len(timeState.completed) = 2
    /\ Cardinality(DOMAIN timeState.componentTimes) = 2
    /\ timeState.remaining # <<>>
    /\ timeState.inProgress = <<timeState.remaining[1]>>

\* the full pass is under way
FullPass ==
    pc \in {"loop", "decide", "subq", "query", "csat", "csum", "quality",
            "followup", "updsum"}

\* work on a component is under way (researchComponent, the quality check,
\* the follow-ups, the summary update)
Researching ==
    pc \in {"subq", "query", "csat", "csum", "quality", "followup", "updsum"}

\* C19: in the full pass at most one call is in flight and it is a call for
\* the component at the loop's position in the rebalanced sequencing; the
\* loop moves only forward, and only when no call of the component it
\* leaves (its research, quality check and follow-ups) is still in flight;
\* a component is started at the loop's position, after the names before it
\* and no other were completed or skipped.
C19_OneComponentAtATime ==
    [][FullPass /\ FullPass' =>
          /\ plan' = plan
          /\ Cardinality(InFlight') <= 1
          /\ \A c \in InFlight' : c[1] = 0
          /\ Researching' =>
                /\ idx' \in DOMAIN plan.sequencing
                /\ rc'.name = plan.sequencing[idx']
          /\ idx' \in {idx, idx + 1}
          /\ idx' # idx => pc' = "loop" /\ InFlight' = {}
          /\ (~Researching /\ Researching') =>
                /\ idx' = idx
                /\ Range(completedComponents) \cup Range(skippedComponents)
                      \subseteq {plan.sequencing[i] : i \in 1 .. idx - 1}
                /\ rc'.completedIterations = 0]_vars

\* the second name of a reordered sequencing is being searched for, the
\* first name completed
C19_Witness ==
    /\ pc = "query" /\ idx = 2
    /\ InFlight # {}
    /\ plan.sequencing[1] # plan.components[1].name
    /\ completedComponents = <<plan.sequencing[1]>>
    /\ rc.name = plan.sequencing[2]

\* work on the component rc.name is producing progress events: its
\* sub-question searches and saturation checks ("Investigating",
\* "Searching", the saturation messages) and its quality follow-ups
\* ("Additional queries needed", then the searches of each follow-up)
EmittingFor ==
    pc \in {"subq", "query", "csat", "followup"}

\* C20 (as stated): whenever work on a component of the full pass is
\* producing progress events, the component's completion event has not
\* been emitted yet.  The completion event is emitted at the end of
\* researchComponent, in the step that appends the name to
\* completedComponents.
C20_EventsBeforeCompletion ==
    EmittingFor => rc.name \notin Range(completedComponents)

\* C21: a write to the progress sink that fails raises nothing into the
\* research: the step of the failing write leaves the position and every
\* variable of the research as they were, so the run goes on through the
\* same calls, and no run ever ends on a failed write.
C21_WriteFailureContained ==
    [][/\ fault'.kind # "write"
       /\ (route.sinkClosed /\ route.phase = "open" /\ route'.lostWrites
           /\ ~route.lostWrites) =>
             /\ pc' = pc
             /\ route'.phase = "open"
             /\ ResearchUnchanged]_vars

\* progress writes failed after the client went away, and the research
\* went on to complete a component and the report
C21_Witness ==
    /\ route.lostWrites
    /\ route.phase = "closed"
    /\ pc = "done"
    /\ completedComponents # <<>>
    /\ route.events[Len(route.events)].type = "result"

\* C22 (as stated): whenever a request has ended (the sink closed after
\* the result, an error or an abort, or the request answered without a
\* sink for a model-creation error, a parse error or an early rejection),
\* the global timer is no longer armed, and a sink that was opened is
\* closed.
C22_TimerClearedAtEnd ==
    route.phase \in {"closed", "rejected"} =>
       /\ ~route.timer
       /\ route.phase = "closed" => route.sinkClosed

\* C23: when writeFinalReport returns, it returns the primary model's
\* reportMarkdown if the synthesis key is absent or the synthesis call or
\* its stream raised (text already streamed is dropped), and otherwise the
\* text deltas of the stream, all of them, in the order received.
C23_ReportOrFallback ==
    report.returned # <<>> =>
       report.returned[1] = IF ~report.key \/ report.synthesisFailed
                            THEN ReportMarkdown
                            ELSE report.deltas

\* the stream raised after text had arrived, and reportMarkdown was
\* returned
C23_Witness ==
    /\ report.key /\ report.synthesisFailed
    /\ report.deltas # <<>>
    /\ report.returned = <<ReportMarkdown>>

\* C24: with testAnthropicMode set, deepResearch makes no planning,
\* importance, search or component-research call; it calls writeFinalReport
\* once and returns with apiTestResult set, success being true, and a
\* report returned, exactly when that call did not throw.
C24_TestModeOnlySynthesizes ==
    input.testAnthropicMode =>
       /\ pc \in {"test", "tested"}
       /\ plan = [components |-> <<>>, sequencing |-> <<>>]
       /\ importanceScores = <<>>
       /\ researchStats = EmptyStats
       /\ wk = <<>> /\ rc = NoRc
       /\ \A o \in Owners : qf[o] = IdleFrame
       /\ report.calls = 1
       /\ pc = "test" => report.apiTestResult = <<>>
       /\ pc = "tested" =>
             /\ Len(report.apiTestResult) = 1
             /\ report.apiTestResult[1].success <=> report.at # "threw"
             /\ report.apiTestResult[1].success <=> report.returned # <<>>
             /\ report.apiTestResult[1].report = report.returned

\* the test mode returned the streamed text of a synthesis of two or more
\* deltas
C24_Witness ==
    /\ input.testAnthropicMode /\ pc = "tested"
    /\ report.apiTestResult[1].success
    /\ Len(report.deltas) >= 2
    /\ report.apiTestResult[1].report = <<report.deltas>>

\* C25: when every external call returns, every run of deepResearch ends
\* (a run also ends when a call throws and nothing catches it); so does a
\* run whose every search returns pages without markdown, which returns.
C25_EveryRunEnds ==
    <>(\/ pc \in {"done", "tested"}
       \/ pc = "threw" /\ fault # NoFault)

\* a run in which no search returned markdown went through its components
\* and returned
C25_Witness ==
    /\ input.firecrawl = "empty"
    /\ pc = "done" /\ fault = NoFault
    /\ completedComponents # <<>>
    /\ acceptedUrls = {} /\ learnings = <<>>

\* C26: when every search call returns no page with useful markdown, the
\* no-content short-circuit of Analysis & Plan is applied for each sub-query
\* gone through, and the active query becomes the first three words of the
\* query that was analysed followed by "basics"
C26_NoContentShortCircuits ==
    \A o \in Owners :
       input.firecrawl = "empty" /\ qf[o].handled > 0 =>
          /\ qf[o].shortCircuits = qf[o].handled
          /\ qf[o].query = Basics(qf[o].sq)

\* C27: in the loop over a component's sub-questions, the saturation
\* evaluation that returns isSaturated or a coverage of 75 or more ends the
\* loop (the next call is the component summary, no other sub-question is
\* started for the component); any other evaluation moves the loop to the
\* next sub-question, which is researched when there is one and 20 seconds
\* or more remain
C27_SaturationEndsSubQuestions ==
    [][/\ pc = "csat" =>
             IF rc'.saturRes.isSaturated
                \/ rc'.saturRes.coveragePercentage >= 75
             THEN pc' = "csum" /\ rc'.j = rc.j /\ qf' = qf
             ELSE pc' = "subq" /\ rc'.j = rc.j + 1
       /\ pc = "subq" =>
             /\ pc' \in {"query", "csum"}
             /\ pc' = "query" <=>
                   /\ rc.j <= rc.nq
                   /\ Budget(input.maxDuration) - (now - timeState.startTime)
                         >= TwentySeconds
       /\ pc = "csum" => qf' = qf /\ pc' \in {"loop", "quality"}]_vars

\* the first sub-question's evaluation gave a coverage of exactly 75 without
\* the flag, and the component is summarized with a sub-question unresearched
C27_Witness ==
    /\ pc = "csum"
    /\ rc.completedIterations = 1 /\ rc.j = 1 /\ rc.nq = 2
    /\ ~rc.saturRes.isSaturated /\ rc.saturRes.coveragePercentage = 75

\* the places of the sequencing, other than the current one, whose component
\* is neither completed nor skipped
StillToProcess ==
    {i \in DOMAIN plan.sequencing \ {idx} :
        /\ FindComponent(plan, plan.sequencing[i]) # 0
        /\ plan.sequencing[i] \notin
              Range(completedComponents) \cup Range(skippedComponents)}

\* C28: for the last component still to be processed in the sequencing
\* (every other component completed or skipped) the scheduling decision is
\* continue and no LLM decision is requested: the LLM is asked only while
\* another component is still to be processed
C28_LastComponentContinues ==
    pc = "decide" => StillToProcess # {}

\* the conditions under which shouldContinueComponent may return false:
\* five minutes or less remain, more than one name remains, and the time
\* is less than one estimated iteration for each of them, the estimate
\* being the mean of the last three iteration times, else the average of
\* the statistics when positive, else 60 seconds
TimeIsShort(state, st) ==
    LET times == st.iterationTimes
        n == Len(times)
        k == IF n < 3 THEN n ELSE 3
        count == Len(state.remaining)
    IN  /\ state.remainingTime <= FiveMinutes
        /\ count > 1
        /\ IF k > 0
           THEN state.remainingTime * k
                   < count * SeqSum(SubSeq(times, n - k + 1, n))
           ELSE IF st.averageIterationTimeMs.num > 0
                THEN state.remainingTime * st.averageIterationTimeMs.den
                        < count * st.averageIterationTimeMs.num
                ELSE state.remainingTime < count * SixtySeconds

\* C29: shouldContinueComponent returns false (the component is skipped)
\* only when the time is short in the sense above and the LLM was asked and
\* answered; the LLM is asked exactly when the time is short, and in every
\* other case the function returns true and the component is researched
C29_SkipOnlyWhenTimeIsShort ==
    [][/\ (pc = "loop" /\ pc' \in {"decide", "subq"}) =>
             (pc' = "decide" <=> TimeIsShort(timeState', researchStats))
       /\ skippedComponents' # skippedComponents =>
             /\ pc = "decide" /\ TimeIsShort(timeState, researchStats)
             /\ skippedComponents' =
                    Append(skippedComponents, plan.sequencing[idx])
       /\ (pc = "decide" /\ pc' # "threw") =>
             \/ pc' = "subq" /\ skippedComponents' = skippedComponents
             \/ pc' = "loop" /\ skippedComponents' # skippedComponents]_vars

\* a component was skipped on an estimate taken from the last three of more
\* than three iteration times
C29_Witness ==
    /\ skippedComponents # <<>>
    /\ Len(researchStats.iterationTimes) > 3
    /\ pc = "loop"

\* the breadth and depth for a sub-question when remainingTime is shared
\* among count sub-questions (30 s and 60 s are 3 and 6 ticks)
Effective(remainingTime, count) ==
    IF remainingTime < 3 * count THEN <<1, 1>>
    ELSE IF remainingTime < 6 * count
         THEN <<IF input.breadth \div 2 > 1 THEN input.breadth \div 2 ELSE 1,
                1>>
         ELSE <<input.breadth,
                IF (input.depth * Multiplier(rc.name) + 500) \div 1000 > 1
                THEN (input.depth * Multiplier(rc.name) + 500) \div 1000
                ELSE 1>>

\* remainingTime as updateResearchState refreshes it
RefreshedRemainingTime ==
    IF Budget(input.maxDuration) > now - timeState.startTime
    THEN Budget(input.maxDuration) - (now - timeState.startTime) ELSE 0

\* C30: before each sub-question, with timePerQ the refreshed remainingTime
\* divided by the number of sub-questions not yet started, the breadth and
\* depth passed to deepResearchQuery are (1, 1) when timePerQ < 30 s,
\* (max(1, floor(breadth / 2)), 1) when 30 s <= timePerQ < 60 s, and
\* (breadth, max(1, round(depth x multiplier))) otherwise
C30_TimePerNotStartedQuestion ==
    [][(pc = "subq" /\ pc' = "query") =>
          <<qf'[0].breadth, qf'[0].depth>> =
             Effective(RefreshedRemainingTime, rc.nq - (rc.j - 1))]_vars

\* what holds instead: the time is shared among the sub-questions from the
\* first one that has the text of the current one to the end of the list
C30_TimePerQuestionFromFirstOccurrence ==
    [][(pc = "subq" /\ pc' = "query") =>
          LET same == {i \in 1 .. rc.j :
                          rc.subQuestions[i] = rc.subQuestions[rc.j]}
              first == CHOOSE i \in same : \A k \in same : i <= k
          IN  <<qf'[0].breadth, qf'[0].depth>> =
                 Effective(RefreshedRemainingTime, rc.nq - (first - 1))]_vars

\* C31: in the loop over a component's sub-questions, when the refreshed
\* remainingTime is below 20 seconds before a sub-question, the loop ends
\* there: no activation of deepResearchQuery is started for that sub-question
\* (no sub-query generation, no search), the next call is the component's
\* summary, which yields the component's result with a summary, and no
\* sub-question of the component is taken up after it
C31_TimeBreakEndsComponent ==
    [][/\ (pc = "subq" /\ rc.j <= rc.nq /\ RefreshedRemainingTime < 2) =>
             pc' = "csum" /\ qf' = qf /\ rc' = rc
       /\ pc = "csum" =>
             /\ rc.name \in DOMAIN componentResults'
             /\ componentResults'[rc.name].summary \in {"llm", "fallback"}
             /\ qf' = qf
       /\ pc \in {"csum", "quality", "followup", "updsum"} =>
             pc' \notin {"subq", "query"}]_vars

\* a component was completed with a sub-question left unresearched for want
\* of time: the last saturation evaluation did not end the loop
C31_Witness ==
    /\ pc = "loop"
    /\ rc.name \in Range(completedComponents)
    /\ rc.name \in DOMAIN componentResults
    /\ rc.j <= rc.nq
    /\ ~rc.saturRes.isSaturated /\ rc.saturRes.coveragePercentage < 75
    /\ rc.completedIterations >= 1
    /\ RefreshedRemainingTime < 2

\* what is left of the run's budget at time t, by the clock of the time
\* state
RunRemaining(t) == Budget(input.maxDuration) - (t - timeState.startTime)

\* C32: once the time state exists, no depth iteration of deepResearchQuery
\* is started at a moment when less than 20 seconds of the run's budget
\* remain (it0 is the moment the iteration in progress passed the check at
\* the head of the depth loop)
C32_NoDepthIterationWhenLate ==
    timeState.startTime # NoTime =>
       \A o \in Owners :
          qf[o].at \in {"gen", "search", "retry", "summ", "analyze"} =>
             RunRemaining(qf[o].it0) >= TwentySeconds

\* the activation of owner o ends a depth iteration in this step
IterationEnds(o) ==
    /\ qf[o].at \in {"gen", "search", "retry", "summ", "analyze"}
    /\ qf'[o] # qf[o]
    /\ Len(researchStats'.iterationTimes) =
          Len(researchStats.iterationTimes) + 1

\* C33, as stated: the saturation evaluator runs after each depth iteration
\* past the first
C33_EvaluatedPastTheFirst ==
    [][\A o \in Owners :
          IterationEnds(o) /\ qf[o].d >= 1 => qf'[o].at = "midsat"]_vars

\* C33, as the code has it: the saturation evaluator runs after each depth
\* iteration but the last one, in an activation that was given a component;
\* an evaluation that reports isSaturated or a coverage of 65 or more ends
\* the activation (no further depth iteration is run), any other is followed
\* by the next depth iteration
C33_EvaluatedBetweenIterations ==
    [][\A o \in Owners :
          /\ IterationEnds(o) =>
                (qf'[o].at = "midsat"
                    <=> qf[o].comp /\ qf[o].d + 1 < qf[o].depth)
          /\ (qf[o].at = "midsat" /\ qf'[o] # qf[o]) =>
                IF qf'[o].saturEval.isSaturated
                   \/ qf'[o].saturEval.coveragePercentage >= 65
                THEN qf'[o].at = "ret" /\ qf'[o].d = qf[o].d
                ELSE qf'[o].d = qf[o].d + 1
          /\ (qf[o].at = "ret" /\ qf'[o] # qf[o]) =>
                qf'[o].serial # qf[o].serial]_vars

\* an activation of depth 2 returned after its first depth iteration, on an
\* evaluation that gave a coverage between 65 and 75 without the flag
C33_Witness ==
    /\ qf[0].at = "ret" /\ qf[0].depth = 2 /\ qf[0].d = 0
    /\ ~qf[0].saturEval.isSaturated
    /\ qf[0].saturEval.coveragePercentage = 70

\* C34: a sub-query gets its search call and at most one fallback call.  The
\* fallback is issued exactly when the first result has no page with more
\* than 100 characters of markdown, and the first result's urls are then not
\* recorded.  A fallback without such a page either ends the sub-query: no
\* url and no learning is added and neither the summarizer nor the analysis
\* is called for it.  A fallback with such a page is summarized, and its urls
\* are the only ones the sub-query adds.
C34_OneFallbackPerSubQuery ==
    [][\A o \in Owners :
          /\ (qf[o].at = "search" /\ qf'[o] # qf[o]) =>
                \/ /\ qf'[o].at = "retry"
                   /\ ~(\E i \in DOMAIN qf'[o].data :
                           qf'[o].data[i].md > 100)
                   /\ qf'[o].cu = qf[o].cu /\ qf'[o].cl = qf[o].cl
                   /\ qf'[o].handled = qf[o].handled
                \/ /\ qf'[o].at = "summ"
                   /\ \E i \in DOMAIN qf'[o].data : qf'[o].data[i].md > 100
                   /\ qf'[o].data \in ServiceResponses(Tag(qf[o], 0))
                   /\ qf'[o].cu = qf[o].cu \o FoundUrls(qf'[o].data)
          /\ (qf[o].at = "retry" /\ qf'[o] # qf[o]) =>
                \/ /\ acceptedUrls' = acceptedUrls
                   /\ qf'[o].cu = qf[o].cu /\ qf'[o].cl = qf[o].cl
                   /\ qf'[o].handled = qf[o].handled + 1
                   /\ qf'[o].at \notin {"retry", "summ", "analyze"}
                \/ /\ qf'[o].at = "summ"
                   /\ \E i \in DOMAIN qf'[o].data : qf'[o].data[i].md > 100
                   /\ qf'[o].data \in ServiceResponses(Tag(qf[o], 1))
                   /\ qf'[o].cu = qf[o].cu \o FoundUrls(qf'[o].data)]_vars

\* the summarizer is being called on the result of a fallback search whose
\* urls are the last the activation recorded, after urls of another sub-query
C34_Witness ==
    \E o \in Owners :
       /\ qf[o].at = "summ"
       /\ qf[o].found # <<>> /\ qf[o].found[1][5] = 1
       /\ Len(qf[o].cu) > Len(qf[o].found)
       /\ SubSeq(qf[o].cu, Len(qf[o].cu) - Len(qf[o].found) + 1,
                 Len(qf[o].cu)) = qf[o].found

\* C35: the quality LLM call is made only when three minutes or more remain
\* at the component's completion; a follow-up call of deepResearchQuery is
\* made only after a quality evaluation that returned meetsQuality = false
\* with at least one additional query, with breadth 2 and depth 1, and never
\* when less than three minutes remained at the completion; at most two
\* follow-up calls are made after a completion
C35_FollowupsOnlyOnGaps ==
    /\ pc = "quality" => timeState.remainingTime >= 18
    /\ pc = "followup" =>
          /\ hist[rc.name].gaps
          /\ qf[0].breadth = 2 /\ qf[0].depth = 1
          /\ timeState.remainingTime >= 18
          /\ hist[rc.name].followupCalls >= 1
    /\ \A nm \in DOMAIN hist : hist[nm].followupCalls <= 2

\* the second follow-up call after an evaluation that asked for three
C35_Witness ==
    /\ pc = "followup" /\ qf[0].at = "gen"
    /\ hist[rc.name].followupCalls = 2 /\ followups = 1

\* C36: while the quick pass runs, the structures of the orchestrator are as
\* it left them when it launched the workers: the statistics, the result
\* map and the top-level lists are written by no worker
C36_WorkersWriteNothingShared ==
    pc = "quick" =>
       /\ researchStats = EmptyStats
       /\ quickPassResults = <<>>
       /\ learnings = (IF input.prior THEN <<PriorLearning>> ELSE <<>>)
       /\ visitedUrls = (IF input.prior THEN <<PriorUrl>> ELSE <<>>)

\* C37: once an iteration is recorded, whatever the order in which the
\* quick-pass workers and the full pass recorded theirs, the average is
\* totalIterationsTime / completedIterations, completedIterations is the
\* number of iteration times and totalIterationsTime is their sum
C37_StatisticsConsistent ==
    researchStats.completedIterations >= 1 =>
       /\ researchStats.averageIterationTimeMs.den # 0
       /\ researchStats.averageIterationTimeMs.num
             * researchStats.completedIterations
          = researchStats.totalIterationsTime
               * researchStats.averageIterationTimeMs.den
       /\ researchStats.completedIterations
             = Len(researchStats.iterationTimes)
       /\ researchStats.totalIterationsTime
             = SeqSum(researchStats.iterationTimes)

\* two workers of the quick pass have recorded an iteration, one of them a
\* slow one, while a third is still running
C37_Witness ==
    /\ pc = "quick"
    /\ researchStats.completedIterations = 2
    /\ researchStats.totalIterationsTime > 0
    /\ \E o \in DOMAIN wk : wk[o].at = "run"

\* how many times nm occurs in s
Occurrences(s, nm) == Cardinality({i \in DOMAIN s : s[i] = nm})

\* C38: when deepResearch returns normally on a plan whose sequencing names
\* nothing twice, every name of the sequencing that names a component of the
\* plan occurs exactly once in completedComponents and skippedComponents
\* taken together, and the keys of componentResults and of
\* timeStats.componentTimes are exactly the completed names
C38_ReturnedPartition ==
    (/\ pc = "done"
     /\ \A nm \in Range(plan.sequencing) :
           Occurrences(plan.sequencing, nm) = 1) =>
       /\ \A nm \in Range(plan.sequencing) :
             FindComponent(plan, nm) # 0 =>
                Occurrences(completedComponents \o skippedComponents, nm) = 1
       /\ DOMAIN componentResults = Range(completedComponents)
       /\ DOMAIN timeStats.componentTimes = Range(completedComponents)
       /\ timeStats.completedComponents = completedComponents
       /\ timeStats.skippedComponents = skippedComponents

\* deepResearch returned with a component completed, another skipped and a
\* name of the sequencing that names no component
C38_Witness ==
    /\ pc = "done"
    /\ completedComponents # <<>>
    /\ \/ skippedComponents # <<>>
       \/ \E nm \in Range(plan.sequencing) : FindComponent(plan, nm) = 0

\* the number of sub-questions of the component researchComponent is in
PlannedSubQuestions == plan.components[FindComponent(plan, rc.name)].nsub

\* C39: for a component with at most one sub-question the loop of
\* researchComponent makes no call of deepResearchQuery (no sub-query
\* generation, no search) and no saturation call; the summary call is made,
\* and the component is completed with the learnings of the quick pass and
\* the summary that call gave
C39_SingleSubQuestionComponent ==
    /\ pc \in {"subq", "query", "csat", "csum"} /\ PlannedSubQuestions <= 1 =>
          /\ pc \in {"subq", "csum"}
          /\ rc.completedIterations = 0
          /\ rc.componentLearnings = <<>> /\ rc.componentUrls = <<>>
    /\ (/\ pc \in {"quality", "loop"} /\ rc # NoRc
        /\ PlannedSubQuestions <= 1
        /\ hist[rc.name].followupCalls = 0) =>
          /\ Occurrences(completedComponents, rc.name) = 1
          /\ componentResults[rc.name].learnings
                = quickPassResults[rc.name].learnings
          /\ componentResults[rc.name].summary \in {"llm", "fallback"}

\* the component of the fallback plan, completed with a learning of the
\* quick pass and the LLM's summary
C39_Witness ==
    /\ pc \in {"quality", "loop"} /\ rc # NoRc
    /\ rc.name = "Basic Research"
    /\ completedComponents = <<"Basic Research">>
    /\ componentResults[rc.name].learnings # <<>>
    /\ componentResults[rc.name].summary = "llm"

\* C40: no learning returned by a summarizer call and no url returned by a
\* search occurs twice in the top-level lists (a learning names the
\* summarizer call that returned it, a url the search that returned it):
\* what is pushed after a component's research or after a follow-up is only
\* what that research produced
C40_TopLevelListsWithoutRepeats ==
    /\ \A l \in Range(learnings) \ {PriorLearning} :
          Occurrences(learnings, l) = 1
    /\ \A u \in Range(visitedUrls) \ {PriorUrl} :
          Occurrences(visitedUrls, u) = 1

====
